---------------------------- MODULE Spec2Model ----------------------------
(***************************************************************************)
(* The adaptive interaction-and-rendering pipeline of src/app/page.tsx:    *)
(* the frame-rate sampler (usePerformanceMonitor), the animation policy    *)
(* (useOptimizedAnimation), the touch tracker (useTouchPosition) and the   *)
(* pointer fusion (useInteractionPosition), as state machines whose steps  *)
(* are the hooks' event handlers, timers, frame callbacks and effects.     *)
(*                                                                         *)
(* Numbers: times are whole milliseconds; positions are fixed-point, in    *)
(* thousandths (0.8 is 800); the quality factor is in tenths (0.7 is 7).   *)
(***************************************************************************)
EXTENDS Integers, Sequences, FiniteSets, TLC

(***************************************************************************)
(* Bounds of the model.                                                    *)
(***************************************************************************)
\* Window samples recorded in one behaviour (one more than the history holds).
MaxWindows == 11
\* Cap of the frame counter.
MaxFrames == 56
\* The clock advances in steps of TickMs.
TickMs == 1016

\* Frame callbacks that run between two clock readings of the model.
BurstSizes == {30, 56}

(***************************************************************************)
(* Program constants of usePerformanceMonitor.                             *)
(***************************************************************************)
WindowMs == 1000
HistoryCapacity == 10
HighFps == 55
MediumFps == 35
InitialFps == 60

Levels == {"high", "medium", "low"}

VARIABLES
    \* --- the usePerformanceMonitor instance of PerformanceMonitor ---
    fps,                \* useState(60)
    performanceLevel,   \* useState("high")
    isMonitoring,       \* useState(false): the value last handed to setIsMonitoring
    effectMonitoring,   \* isMonitoring as of the last run of the effect (the
                        \* value the registered measureFPS closure captured)
    frameCount,         \* frameCount.current
    sinceLast,          \* performance.now() - lastTime.current
    fpsHistory,         \* fpsHistory.current
    animationFrame,     \* animationFrame.current: "undefined", "live" (names a
                        \* callback in the frame queue) or "dead" (fired or cancelled)
    scheduled,          \* measureFPS callbacks in the browser's frame queue
    \* --- history variables of the sampler (not program state) ---
    samples,            \* every window sample, in arrival order
    lastWindow,         \* frames and elapsed ms the last sample was computed from
    lastCall,           \* the last start/stop call and whether it repeated the one before
    \* --- the browser window ---
    innerWidth,         \* window.innerWidth
    innerHeight,        \* window.innerHeight
    \* --- one useOptimizedAnimation instance ---
    consumerLevel,      \* performanceLevel of the usePerformanceMonitor instance it
                        \* creates (line 95; likewise lines 124 and 1023)
    enabled,            \* the hook's argument
    shouldAnimate,      \* useState(enabled)
    animationQuality,   \* useState(1), in tenths
    policyDeps,         \* [performanceLevel, enabled] at the last run of the effect
                        \* (<<>> before the first run)
    widthSeen,          \* history: window.innerWidth at the last run of the effect
    \* --- one useTouchPosition instance ---
    touchPosition,      \* useState({x: 0, y: 0}): the raw position, in thousandths
    isActive,           \* useState(false)
    smoothedPosition,   \* useState({x: 0, y: 0}), in thousandths
    touchTicking,       \* ticking.current
    moveFrame,          \* the frame callbacks handleTouchMove requested and which
                        \* have not run yet, oldest first: the client coordinates
                        \* of touches[0] of the event each closed over
    decayTimers,        \* live intervals started by handleTouchEnd
    fingers,            \* touches on the screen (the browser's state)
    smoothingAge,       \* ms since the interval of line 380 was set or ticked last
    decayAges,          \* of each live interval of handleTouchEnd, oldest first:
                        \* ms since it was set or ticked last
    \* --- history variables of the tracker (not program state) ---
    sinceRaw,           \* ms since the raw position last changed, counted up to
                        \* the longer smoothing period
    rawBy,              \* what set the raw position last: "none", "touch", "decay"
    \* --- one useInteractionPosition instance ---
    hasTouch,           \* "ontouchstart" in window
    isMobile,           \* useState(false)
    screenSize,         \* useState({width: 0, height: 0})
    mousePosition,      \* what useMousePosition() returns, in thousandths
    orientation,        \* the smoothed orientation useDeviceOrientation() returns
    orientationSupported, \* the isSupported useDeviceOrientation() returns
    \* --- one useMousePosition instance ---
    mouseTicking,       \* ticking.current
    mouseFrame,         \* the frame callbacks handleMouseMove requested and which
                        \* have not run yet, oldest first: the client coordinates
                        \* of the event each closed over
    lastMove,           \* history: the client coordinates of the latest mousemove
                        \* the handler received, <<>> before the first
    \* --- one useDeviceOrientation instance ---
    orientationApi,     \* "permission": DeviceOrientationEvent.requestPermission exists;
                        \* "plain": DeviceOrientationEvent without it; "missing": neither
    firstTouchArmed,    \* handleFirstTouch is a touchstart listener
    permissionPending,  \* requestPermission() promises not yet settled
    permissionRequests, \* history: calls of DeviceOrientationEvent.requestPermission()
    lastOutcome,        \* history: how the last settled request ended ("none" before)
    orientationListener, \* the handleOrientation of the effect's latest run is a
                        \* deviceorientation listener
    stalePending,       \* of the promises not yet settled, those requested by runs
                        \* of the effect cleaned up since: the animationQuality
                        \* each run closed over
    leakedListeners,    \* the handleOrientation of cleaned-up runs that are
                        \* deviceorientation listeners: the animationQuality each
                        \* closed over
    rawOrientation,     \* useState({x: 0, y: 0, z: 0}) (line 394): its x and y,
                        \* in thousandths
    orientationTicking, \* ticking.current (line 400)
    orientationFrame,   \* the frame callbacks handleOrientation requested and which
                        \* have not run yet, oldest first: the event (gamma and
                        \* beta, in degrees) and animationQuality each closed over
    \* --- the useHapticFeedback instances and what they share ---
    canVibrate,         \* "vibrate" in navigator
    vibrateThrows,      \* navigator.vibrate throws when called
    storage,            \* localStorage item "haptic-feedback" (NoItem: getItem gives null)
    hapticMobile,       \* isMobile of every instance (all run the same checkSupport)
    hapticSupported,    \* isSupported of every instance
    toggleEnabled,      \* isEnabled of the instance in HapticToggle
    hookEnabled,        \* isEnabled of the instances in useTouchPosition and
                        \* useDeviceOrientation
    buttonMobile,       \* isMobile of HapticToggle (line 799)
    sinceVibrate,       \* Date.now() - lastVibrateTime.current of a tracker, in ms,
                        \* kept up to SinceCap
    pulse,              \* history: the navigator.vibrate calls the last handler made
    sincePulse,         \* history: ms since the last navigator.vibrate call made for a
                        \* touchstart (.touch) and for a touchmove (.move), each kept
                        \* up to SinceCap
    toggles,            \* history: toggleHaptics calls since the page was loaded
    mountEnabled,       \* history: isEnabled after the mount effect
    \* --- one useScrollAnimation instance and the element of its ref ---
    isVisible,          \* useState(false) (line 122)
    revealLevel,        \* performanceLevel of the sampler it creates (line 124)
    ratio,              \* the part of the element inside the observer's root, in
                        \* per cent (the root is the viewport grown by rootMargin)
    reported,           \* what the live observer last computed for the element:
                        \* "in", "out", "fresh" (observed, nothing computed yet)
                        \* or "unobserved"
    entries,            \* the live observer's queued entries, oldest first: the
                        \* isIntersecting of each
    staleEntries,       \* isIntersecting of the entries still queued in observers
                        \* whose effect was cleaned up
    \* --- one ParallaxElement with its useParallax instance ---
    element,            \* its props: speed and interactionSpeed in hundredths, size
    pageYOffset,        \* window.pageYOffset, in px
    offset,             \* useState(0) of useParallax (line 155), in thousandths of a px
    scrollTicking,      \* ticking.current of useParallax (line 157)
    scrollFrame,        \* the frame callbacks handleScroll requested and which
                        \* have not run yet, oldest first: the animationQuality
                        \* each closed over
    isInView            \* useState(true) of ParallaxElement (line 551)

samplerVars == <<fps, performanceLevel, isMonitoring, effectMonitoring, frameCount,
                 sinceLast, fpsHistory, animationFrame, scheduled>>
samplerHist == <<samples, lastWindow, lastCall>>
windowVars == <<innerWidth, innerHeight>>
policyVars == <<consumerLevel, enabled, shouldAnimate, animationQuality, policyDeps,
                widthSeen>>

touchState == <<touchPosition, isActive, smoothedPosition, touchTicking, moveFrame,
                decayTimers, fingers>>
touchHist == <<sinceRaw, rawBy>>
touchVars == <<touchState, smoothingAge, decayAges, touchHist>>
fusionVars == <<hasTouch, isMobile, screenSize, mousePosition, orientation,
                orientationSupported>>

mouseVars == <<mouseTicking, mouseFrame, lastMove>>
\* The hooks around the sampler, the policy, the tracker and the fusion.
\* What a run of the effect of lines 402-462 and its cleanup set.
effectVars == <<firstTouchArmed, orientationListener, stalePending>>
permissionVars == <<orientationApi, permissionPending, permissionRequests, lastOutcome,
                    leakedListeners, rawOrientation, orientationTicking,
                    orientationFrame>>
\* What the touch and orientation handlers read of the haptics, and what they
\* write.
hapticConfig == <<canVibrate, vibrateThrows, storage, hapticMobile, hapticSupported,
                  toggleEnabled, hookEnabled, buttonMobile, toggles, mountEnabled>>
hapticTrace == <<sinceVibrate, pulse, sincePulse>>
hapticVars == <<hapticConfig, hapticTrace>>
\* The hooks of the rendered elements.
visibilityVars == <<isVisible, revealLevel, ratio, reported, entries, staleEntries>>
parallaxVars == <<element, pageYOffset, offset, scrollTicking, scrollFrame, isInView>>
viewVars == <<visibilityVars, parallaxVars>>
restVars == <<mouseVars, effectVars, permissionVars, hapticVars, viewVars>>

vars == <<samplerVars, samplerHist, windowVars, policyVars, touchVars, fusionVars,
          restVars>>

\* What the sampler's steps leave alone.
notSampler == <<windowVars, policyVars, touchVars, fusionVars, restVars>>
\* What the policy's steps leave alone.
notPolicy == <<samplerVars, samplerHist, touchVars, fusionVars, mouseVars, permissionVars,
              hapticVars, viewVars>>
\* The same without the smoothing interval, which a change of shouldAnimate or
\* animationQuality sets anew (line 388).
notPolicyNorSmoothing == <<samplerVars, samplerHist, touchState, decayAges, touchHist,
                           fusionVars, mouseVars, permissionVars, hapticVars, viewVars>>
\* What the visibility tracker's steps leave alone.
notVisibility == <<samplerVars, samplerHist, windowVars, policyVars, touchVars,
                   fusionVars, mouseVars, effectVars, permissionVars, hapticVars,
                   parallaxVars>>
\* What the steps of useParallax and ParallaxElement leave alone.
notParallax == <<samplerVars, samplerHist, windowVars, policyVars, touchVars,
                 fusionVars, mouseVars, effectVars, permissionVars, hapticVars,
                 visibilityVars>>
\* What the touch tracker's steps leave alone.
notTouch == <<samplerVars, samplerHist, windowVars, policyVars, fusionVars, mouseVars, viewVars,
              effectVars, permissionVars, hapticConfig>>

(***************************************************************************)
(* usePerformanceMonitor                                                   *)
(***************************************************************************)
RECURSIVE Sum(_)
Sum(s) == IF s = <<>> THEN 0 ELSE Head(s) + Sum(Tail(s))

\* Math.round of num/den for num >= 0, den > 0: halves round up.
Round(num, den) == (2 * num + den) \div (2 * den)

\* fpsHistory.current.push(currentFPS); if (length > 10) shift()
PushEvictNewest(h, x) == IF Len(h) >= HistoryCapacity THEN h ELSE Append(h, x)
PushSample(h, x) ==
    LET pushed == Append(h, x)
    IN  IF Len(pushed) > HistoryCapacity THEN Tail(pushed) ELSE pushed

\* avgFPS >= 55 -> high, >= 35 -> medium, else low; avgFPS = sum / length
LevelOfStrict(h) ==
    IF Sum(h) > HighFps * Len(h) THEN "high"
    ELSE IF Sum(h) > MediumFps * Len(h) THEN "medium"
    ELSE "low"
LevelOf(h) ==
    IF Sum(h) >= HighFps * Len(h) THEN "high"
    ELSE IF Sum(h) >= MediumFps * Len(h) THEN "medium"
    ELSE "low"

\* The refs and state one call of measureFPS reads and writes.
SamplerState == [frameCount |-> frameCount, sinceLast |-> sinceLast,
                 fpsHistory |-> fpsHistory, fps |-> fps,
                 performanceLevel |-> performanceLevel]

\* One call of measureFPS (lines 27-54); the rescheduling of lines 56-58 is
\* in FrameCallbacks.
measureFPS(s) ==
    LET count == s.frameCount + 1
    IN  IF s.sinceLast >= WindowMs
        THEN LET currentFPS == Round(count * 1000, s.sinceLast)
                 hist == PushSample(s.fpsHistory, currentFPS)
             IN  [frameCount |-> 0, sinceLast |-> 0, fpsHistory |-> hist,
                  fps |-> currentFPS, performanceLevel |-> LevelOf(hist)]
        ELSE [s EXCEPT !.frameCount = count]

\* k >= 1 calls of measureFPS in a row at one clock reading, each scheduled by
\* the one before. After the first call the reading is below the window (it is
\* unchanged, or 0 after a boundary), so each later call only runs line 28.
RunFrames(s, k) ==
    LET first == measureFPS(s)
    IN  [first EXCEPT !.frameCount = first.frameCount + (k - 1)]

InitSampler ==
    /\ fps = InitialFps
    /\ performanceLevel = "high"
    /\ isMonitoring = FALSE
    /\ effectMonitoring = FALSE
    /\ frameCount = 0
    /\ sinceLast = 0
    /\ fpsHistory = <<>>
    /\ animationFrame = "undefined"
    /\ scheduled = 0
    /\ samples = <<>>
    /\ lastWindow = [frames |-> 0, elapsed |-> 0]
    /\ lastCall = [op |-> "none", repeated |-> FALSE]

\* frameCount, lastTime and fpsHistory at a call of startMonitoring: refs of
\* the hook (lines 21-23), which line 77 does not write.
SamplerRefs == [frameCount |-> frameCount, sinceLast |-> sinceLast,
                fpsHistory |-> fpsHistory]
RefsStartAfresh(refs) == [frameCount |-> 0, sinceLast |-> 0, fpsHistory |-> <<>>]
RefsAfterStart(refs) == refs

\* startMonitoring (line 77), called by PerformanceMonitor (lines 621, 631, 686).
StartMonitoring ==
    /\ isMonitoring' = TRUE
    /\ lastCall' = [op |-> "start", repeated |-> lastCall.op = "start"]
    /\ LET refs == RefsAfterStart(SamplerRefs)
       IN  /\ frameCount' = refs.frameCount
           /\ sinceLast' = refs.sinceLast
           /\ fpsHistory' = refs.fpsHistory
    /\ UNCHANGED <<fps, performanceLevel, effectMonitoring, animationFrame, scheduled,
                   notSampler, samples, lastWindow>>

\* stopMonitoring (line 78), called by PerformanceMonitor (lines 659, 686).
StopMonitoring ==
    /\ isMonitoring' = FALSE
    /\ lastCall' = [op |-> "stop", repeated |-> lastCall.op = "stop"]
    /\ UNCHANGED <<fps, performanceLevel, effectMonitoring, frameCount, sinceLast,
                   fpsHistory, animationFrame, scheduled, notSampler, samples,
                   lastWindow>>

\* cancelAnimationFrame(animationFrame.current) behind if (animationFrame.current):
\* the frame queue and the handle afterwards.
CancelFrameKeep(af, n) == [animationFrame |-> af, scheduled |-> n]
CancelFrame(af, n) ==
    IF af = "live" THEN [animationFrame |-> "dead", scheduled |-> n - 1]
    ELSE [animationFrame |-> af, scheduled |-> n]

\* The effect of lines 61-75 for a changed isMonitoring: the cleanup of the
\* previous run, then the body.
EffectNoCancel(af, n, monitoring) ==
    IF monitoring
    THEN [animationFrame |-> "live", scheduled |-> n + 1]
    ELSE [animationFrame |-> af, scheduled |-> n]
MonitorEffectResult(af, n, monitoring) ==
    LET cleaned == CancelFrame(af, n)
    IN  IF monitoring
        THEN [animationFrame |-> "live", scheduled |-> cleaned.scheduled + 1]
        ELSE CancelFrame(cleaned.animationFrame, cleaned.scheduled)

\* The render that commits a changed isMonitoring, and its effect.
MonitorEffect ==
    /\ isMonitoring # effectMonitoring
    /\ effectMonitoring' = isMonitoring
    /\ LET r == MonitorEffectResult(animationFrame, scheduled, isMonitoring)
       IN  /\ animationFrame' = r.animationFrame
           /\ scheduled' = r.scheduled
    /\ UNCHANGED <<fps, performanceLevel, isMonitoring, frameCount, sinceLast,
                   fpsHistory, notSampler, samplerHist>>

\* The browser runs a scheduled measureFPS, and the k - 1 callbacks it and its
\* successors schedule, before the clock is read again. Every scheduled
\* measureFPS closed over isMonitoring = true (the effect schedules it only
\* then), so line 56 reschedules: the queue keeps its size and
\* animationFrame.current names the newest callback.
FrameCallbacks(k) ==
    /\ scheduled > 0
    /\ LET s == RunFrames(SamplerState, k)
           boundary == sinceLast >= WindowMs
       IN  /\ s.frameCount <= MaxFrames
           /\ boundary => Len(samples) < MaxWindows
           /\ frameCount' = s.frameCount
           /\ sinceLast' = s.sinceLast
           /\ fpsHistory' = s.fpsHistory
           /\ fps' = s.fps
           /\ performanceLevel' = s.performanceLevel
           /\ samples' = IF boundary THEN Append(samples, s.fps) ELSE samples
           /\ lastWindow' = IF boundary
                            THEN [frames |-> frameCount + 1, elapsed |-> sinceLast]
                            ELSE lastWindow
    /\ animationFrame' = "live"
    /\ UNCHANGED <<isMonitoring, effectMonitoring, scheduled, notSampler, lastCall>>

\* Time passes. The clock is followed up to the first reading past the window.
Tick ==
    /\ sinceLast < WindowMs
    /\ sinceLast' = sinceLast + TickMs
    /\ UNCHANGED <<fps, performanceLevel, isMonitoring, effectMonitoring, frameCount,
                   fpsHistory, animationFrame, scheduled, notSampler, samplerHist>>

NextSampler ==
    \/ StartMonitoring
    \/ StopMonitoring
    \/ MonitorEffect
    \/ \E k \in BurstSizes : FrameCallbacks(k)
    \/ Tick

(***************************************************************************)
(* The browser window                                                      *)
(***************************************************************************)
\* <<window.innerWidth, window.innerHeight>> of the windows considered.
Viewports == {<<390, 844>>, <<767, 1024>>, <<768, 1024>>, <<769, 1024>>}

\* checkDevice (lines 491-496): what it hands to setIsMobile.
NarrowWidth == 768
CheckDevice(width, touch) == width < NarrowWidth \/ touch

(***************************************************************************)
(* useOptimizedAnimation                                                   *)
(***************************************************************************)
MobileMaxWidth == 768

\* The switch of lines 101-114: what the effect hands to setAnimationQuality
\* and setShouldAnimate.
PolicyWidthInclusive(level, en, width) ==
    CASE level = "high" -> [animationQuality |-> 10, shouldAnimate |-> en]
      [] level = "medium" -> [animationQuality |-> 7, shouldAnimate |-> en]
      [] level = "low" -> [animationQuality |-> 4,
                           shouldAnimate |-> en /\ width >= MobileMaxWidth]
Policy(level, en, width) ==
    CASE level = "high" -> [animationQuality |-> 10, shouldAnimate |-> en]
      [] level = "medium" -> [animationQuality |-> 7, shouldAnimate |-> en]
      [] level = "low" -> [animationQuality |-> 4,
                           shouldAnimate |-> en /\ width > MobileMaxWidth]

\* The hook as mounted: useState(enabled), useState(1), a fresh sampler
\* ("high"), the effect not yet run.
InitPolicy ==
    /\ consumerLevel = "high"
    /\ enabled \in BOOLEAN
    /\ shouldAnimate = enabled
    /\ animationQuality = 10
    /\ policyDeps = <<>>
    /\ widthSeen = innerWidth

\* The hook with its defaults (enabled = true) after its first effect.
InitPolicySettled ==
    /\ consumerLevel = "high"
    /\ enabled = TRUE
    /\ shouldAnimate = TRUE
    /\ animationQuality = 10
    /\ policyDeps = <<"high", TRUE>>
    /\ widthSeen = innerWidth

\* A render of useDeviceOrientation: useHapticFeedback hands it a new vibrate
\* and new patterns (lines 231, 258), so the cleanup of lines 459-462 runs and
\* then the effect of lines 402-462, with shouldAnimate as given. The requests
\* still pending were made by runs that are cleaned up from now on.
RerunOrientationEffect(animate) ==
    /\ firstTouchArmed' = animate
    /\ orientationListener' = FALSE
    /\ stalePending' =
           stalePending \o [i \in 1..(permissionPending - Len(stalePending)) |->
                               animationQuality]

\* The effect of lines 376-388 after a render: its cleanup clears the
\* smoothing interval and it sets a new one when one of its dependencies
\* has changed.
RestartSmoothingNever(age) == age
RestartSmoothing(age) == 0

\* The effect of lines 99-115, run after a render whose [performanceLevel,
\* enabled] differ from those of its last run. The hooks that read the policy
\* render with what it set.
PolicyEffect ==
    /\ policyDeps # <<consumerLevel, enabled>>
    /\ LET r == Policy(consumerLevel, enabled, innerWidth)
       IN  /\ animationQuality' = r.animationQuality
           /\ shouldAnimate' = r.shouldAnimate
    /\ policyDeps' = <<consumerLevel, enabled>>
    /\ widthSeen' = innerWidth
    /\ RerunOrientationEffect(Policy(consumerLevel, enabled, innerWidth).shouldAnimate)
    /\ smoothingAge' = IF Policy(consumerLevel, enabled, innerWidth) =
                             [shouldAnimate |-> shouldAnimate,
                              animationQuality |-> animationQuality]
                       THEN smoothingAge
                       ELSE RestartSmoothing(smoothingAge)
    /\ UNCHANGED <<consumerLevel, enabled, windowVars, notPolicyNorSmoothing>>

\* The hook's own sampler hands a new tier to setPerformanceLevel (lines 44-50).
ConsumerLevelChange(level) ==
    /\ level # consumerLevel
    /\ consumerLevel' = level
    /\ RerunOrientationEffect(shouldAnimate)
    /\ UNCHANGED <<enabled, shouldAnimate, animationQuality, policyDeps, widthSeen,
                   windowVars, notPolicy>>

\* The caller renders the hook with the other argument (line 94).
EnabledChange ==
    /\ enabled' = ~enabled
    /\ RerunOrientationEffect(shouldAnimate)
    /\ UNCHANGED <<consumerLevel, shouldAnimate, animationQuality, policyDeps,
                   widthSeen, windowVars, notPolicy>>

\* The window is resized. useOptimizedAnimation registers no resize listener;
\* checkDevice of useInteractionPosition (lines 491-499) and checkSupport of
\* useHapticFeedback (lines 213-220) are and run; HapticToggle has none.
Resize(v) ==
    /\ v # <<innerWidth, innerHeight>>
    /\ innerWidth' = v[1]
    /\ innerHeight' = v[2]
    /\ screenSize' = [width |-> v[1], height |-> v[2]]
    /\ isMobile' = CheckDevice(v[1], hasTouch)
    /\ hapticMobile' = CheckDevice(v[1], hasTouch)
    /\ hapticSupported' = (CheckDevice(v[1], hasTouch) /\ canVibrate)
    /\ pulse' = [by |-> "none", pattern |-> <<>>, calls |-> 0, threw |-> FALSE]
    /\ RerunOrientationEffect(shouldAnimate)
    /\ UNCHANGED <<policyVars, samplerVars, samplerHist, touchVars, hasTouch,
                   mousePosition, orientation, orientationSupported, mouseVars, viewVars,
                   permissionVars, canVibrate, vibrateThrows, storage, toggleEnabled,
                   hookEnabled, buttonMobile, toggles, mountEnabled, sinceVibrate,
                   sincePulse>>

NextPolicy ==
    \/ PolicyEffect
    \/ \E level \in Levels : ConsumerLevelChange(level)
    \/ EnabledChange
    \/ \E v \in Viewports : Resize(v)

(***************************************************************************)
(* useHapticFeedback                                                       *)
(*                                                                         *)
(* Every call of the hook is an instance with its own isSupported,         *)
(* isEnabled and isMobile. All instances compute isMobile and isSupported  *)
(* from the same window on the same events, so one variable stands for     *)
(* each; isEnabled is read from localStorage at mount and changed only by  *)
(* the toggleHaptics of the instance it belongs to.                        *)
(***************************************************************************)
\* Bounds: toggleHaptics calls followed per page load; ms one step of the
\* clock advances.
MaxToggles == 3
ClockStepMs == 150

\* Cooldowns of lines 286 and 328, and the reading from which a cooldown no
\* longer tells two times apart.
TouchCooldownMs == 100
MoveCooldownMs == 300
SinceCap == MoveCooldownMs + 1

\* patterns.touch, patterns.release, patterns.gentle (lines 259-264) and the
\* confirmation of line 248: what navigator.vibrate is handed, a number being
\* the pattern of that one duration.
PatternTouch == <<12>>
PatternRelease == <<8>>
PatternGentle == <<6>>
PatternConfirm == <<15>>
\* patterns.success and patterns.error (lines 262-263)
PatternSuccess == <<10, 50, 15, 50, 10>>
PatternError == <<20, 100, 20>>

\* useInteractionPosition is called by each of the 15 ParallaxElements of
\* BackgroundElements and by HeroParallax (lines 548, 701-790, 953): that many
\* useTouchPosition instances listen to the same touch events.
TrackerInstances == 16

NoItem == "<null>"
\* newState.toString() (line 244)
BoolToString(b) == IF b THEN "true" ELSE "false"
\* isEnabled after the mount effect: useState(true), then lines 222-225.
SavedPreferenceDefaultOff(item) == item = "true"
SavedPreference(item) == IF item = NoItem THEN TRUE ELSE item = "true"

\* The condition of line 232, on the state of the instance whose vibrate runs.
VibrateGateIgnoresPreference(supported, isEnabled, mobile) == supported /\ mobile
VibrateGate(supported, isEnabled, mobile) == supported /\ isEnabled /\ mobile

NoPulse == [by |-> "none", pattern |-> <<>>, calls |-> 0, threw |-> FALSE]
\* What vibrate(pattern) does in each of n instances whose isEnabled is the
\* given one: navigator.vibrate(pattern) inside try/catch (lines 233-237).
Vibrate(by, pattern, n, isEnabled) ==
    IF VibrateGate(hapticSupported, isEnabled, hapticMobile)
    THEN [by |-> by, pattern |-> pattern, calls |-> n, threw |-> vibrateThrows]
    ELSE NoPulse

\* Whether the vibrate that did this returned to its caller: the catch of
\* lines 235-237 swallows what navigator.vibrate throws.
VibrateReturnsUnlessThrown(made) == ~made.threw
VibrateReturns(made) == TRUE

\* A reading of elapsed time d ms later.
Later(since, d) == IF since + d > SinceCap THEN SinceCap ELSE since + d

\* Every instance after its mount effect (lines 212-229), and HapticToggle
\* after its own (lines 801-803).
InitHaptic ==
    /\ hapticMobile = CheckDevice(innerWidth, hasTouch)
    /\ hapticSupported = (CheckDevice(innerWidth, hasTouch) /\ canVibrate)
    /\ toggleEnabled = SavedPreference(storage)
    /\ hookEnabled = SavedPreference(storage)
    /\ buttonMobile = CheckDevice(innerWidth, hasTouch)
    /\ sinceVibrate = SinceCap
    /\ pulse = NoPulse
    /\ sincePulse = [touch |-> SinceCap, move |-> SinceCap]
    /\ toggles = 0
    /\ mountEnabled = SavedPreference(storage)

\* toggleHaptics (lines 241-250), the onClick of the button HapticToggle
\* renders when its isMobile and isSupported hold (line 805). vibrate is the
\* one of the render that created the handler: it reads the isEnabled of
\* before the call.
ToggleHaptics ==
    /\ buttonMobile /\ hapticSupported
    /\ toggles < MaxToggles
    /\ toggles' = toggles + 1
    /\ toggleEnabled' = ~toggleEnabled
    /\ storage' = BoolToString(~toggleEnabled)
    /\ pulse' = IF ~toggleEnabled
                THEN Vibrate("toggle", PatternConfirm, 1, toggleEnabled)
                ELSE NoPulse
    /\ UNCHANGED <<canVibrate, vibrateThrows, hapticMobile, hapticSupported,
                   hookEnabled, buttonMobile, sinceVibrate, sincePulse,
                   mountEnabled, mouseVars, viewVars, effectVars, permissionVars, samplerVars,
                   samplerHist,
                   windowVars, policyVars, touchVars, fusionVars>>

\* Time passes.
ClockAdvance ==
    /\ sinceVibrate' = Later(sinceVibrate, ClockStepMs)
    /\ sincePulse' = [touch |-> Later(sincePulse.touch, ClockStepMs),
                      move |-> Later(sincePulse.move, ClockStepMs)]
    /\ pulse' = NoPulse
    /\ <<sinceVibrate', sincePulse', pulse'>> # <<sinceVibrate, sincePulse, pulse>>
    /\ UNCHANGED <<canVibrate, vibrateThrows, storage, hapticMobile, hapticSupported,
                   toggleEnabled, hookEnabled, buttonMobile, toggles, mountEnabled,
                   mouseVars, viewVars, effectVars, permissionVars, samplerVars, samplerHist,
                   windowVars,
                   policyVars, touchVars, fusionVars>>

(***************************************************************************)
(* useTouchPosition                                                        *)
(*                                                                         *)
(* touchstart, touchmove and touchend are discrete events: React renders   *)
(* the state they set, and re-runs the effect that registers the handlers, *)
(* before the next event is dispatched, so a handler reads the isActive    *)
(* last set and its vibrate the flags last set. The tracker modelled       *)
(* stands for the TrackerInstances trackers of the page: they handle the   *)
(* same events, so their states stay equal.                                *)
(***************************************************************************)
\* The guard of lines 163, 188, 310 and 406: a handler requests a frame
\* callback unless its ticking ref says that one is pending.
MayRequestFrameAlways(ticking) == TRUE
MayRequestFrame(ticking) == ~ticking

\* Bounds: fingers on the screen, decay intervals alive at once.
MaxFingers == 2
MaxDecayTimers == 2

\* 0.8, 0.92 (per cent), 0.01 and 0.1 (per cent) of lines 295, 351, 354, 382.
MaxOffset == 800
DecayPercent == 92
SnapThreshold == 10
SmoothingPercent == 10
\* 0.6 of line 330
FarDistance == 600

Abs(a) == IF a < 0 THEN -a ELSE a
\* a / b for b > 0, rounded toward zero: a quotient or product of floats, kept
\* in thousandths.
Quot(a, b) == IF a >= 0 THEN a \div b ELSE -((-a) \div b)

\* Math.max(-0.8, Math.min(0.8, v))
Clamp(v) == IF v < -MaxOffset THEN -MaxOffset ELSE IF v > MaxOffset THEN MaxOffset ELSE v

\* Math.max(-0.8, Math.min(0.8, ((client - inner / 2) / inner) * animationQuality))
Offset(client, inner, quality) ==
    Clamp(Quot((2 * client - inner) * 100 * quality, 2 * inner))

\* newPosition of lines 293-302 and 314-323 for a touch at client coordinates p.
TouchOffset(p) == [x |-> Offset(p[1], innerWidth, animationQuality),
                   y |-> Offset(p[2], innerHeight, animationQuality)]

\* The updater of lines 350-360: the next raw position, and whether it called
\* clearInterval.
Decayed(prev) ==
    LET newX == Quot(prev.x * DecayPercent, 100)
        newY == Quot(prev.y * DecayPercent, 100)
    IN  IF Abs(newX) < SnapThreshold /\ Abs(newY) < SnapThreshold
        THEN [position |-> [x |-> 0, y |-> 0], cleared |-> TRUE]
        ELSE [position |-> [x |-> newX, y |-> newY], cleared |-> FALSE]

\* The updater of lines 381-384.
Smoothed(prev, raw) ==
    [x |-> prev.x + Quot((raw.x - prev.x) * SmoothingPercent, 100),
     y |-> prev.y + Quot((raw.y - prev.y) * SmoothingPercent, 100)]

Origin == [x |-> 0, y |-> 0]

\* 16 of line 361; 16 and 32 of line 379.
DecayMs == 16
FastSmoothingMs == 16
SlowSmoothingMs == 32
\* smoothingRate of line 379
SmoothingRate == IF animationQuality > 7 THEN FastSmoothingMs ELSE SlowSmoothingMs

\* setTouchPosition(new) by a handler ("touch") or by an interval of
\* handleTouchEnd ("decay"): new is a new object, so the render that follows
\* runs the effect of lines 376-388 again.
SetTouchPosition(new, by) ==
    /\ touchPosition' = new
    /\ smoothingAge' = RestartSmoothing(smoothingAge)
    /\ sinceRaw' = IF new = touchPosition THEN sinceRaw ELSE 0
    /\ rawBy' = by

\* clearInterval of the i-th live interval (line 355).
ClearInterval(ages, i) ==
    [j \in 1..(Len(ages) - 1) |-> IF j < i THEN ages[j] ELSE ages[j + 1]]

InitTouch ==
    /\ touchPosition = Origin
    /\ isActive = FALSE
    /\ smoothedPosition = Origin
    /\ touchTicking = FALSE
    /\ moveFrame = <<>>
    /\ decayTimers = 0
    /\ fingers = 0
    /\ smoothingAge = 0
    /\ decayAges = <<>>
    /\ sinceRaw = 0
    /\ rawBy = "none"

\* handleTouchStart (lines 281-305); p is e.touches[0]. The listener is
\* registered whether or not the device reports touch support (line 364).
TouchStart(p) ==
    /\ shouldAnimate
    /\ fingers < MaxFingers
    /\ fingers' = fingers + 1
    /\ isActive' = TRUE
    /\ LET due == sinceVibrate > TouchCooldownMs
           made == Vibrate("touch", PatternTouch, TrackerInstances, hookEnabled)
           goesOn == due => VibrateReturns(made)
       IN  /\ pulse' = IF due THEN made ELSE NoPulse
           /\ sinceVibrate' = IF due /\ goesOn THEN 0 ELSE sinceVibrate
           /\ IF goesOn
              THEN SetTouchPosition(TouchOffset(p), "touch")
              ELSE UNCHANGED <<touchPosition, smoothingAge, touchHist>>
           /\ sincePulse' = IF due /\ made.calls > 0
                            THEN [sincePulse EXCEPT !.touch = 0]
                            ELSE sincePulse
    /\ UNCHANGED <<smoothedPosition, touchTicking, moveFrame, decayTimers, decayAges,
                   notTouch>>

\* handleTouchMove (lines 307-340) up to the scheduling of its frame callback;
\* it returns at once when isActive is false or a callback is pending.
TouchMove(p) ==
    /\ shouldAnimate
    /\ fingers > 0
    /\ isActive
    /\ MayRequestFrame(touchTicking)
    /\ moveFrame' = Append(moveFrame, p)
    /\ touchTicking' = TRUE
    /\ pulse' = NoPulse
    /\ UNCHANGED <<touchPosition, isActive, smoothedPosition, decayTimers, fingers,
                   smoothingAge, decayAges, touchHist, sinceVibrate, sincePulse,
                   notTouch>>

\* A rendering frame runs the callbacks of handleTouchMove (lines 311-337)
\* that are pending, oldest first. Nothing cancels them: they run whatever
\* happened since the touchmove.
TouchMoveFrame ==
    /\ moveFrame # <<>>
    /\ SetTouchPosition(TouchOffset(moveFrame[Len(moveFrame)]), "touch")
    /\ moveFrame' = <<>>
    /\ LET new == TouchOffset(moveFrame[Len(moveFrame)])
           due == /\ sinceVibrate > MoveCooldownMs
                  /\ new.x * new.x + new.y * new.y > FarDistance * FarDistance
           made == Vibrate("move", PatternGentle, TrackerInstances, hookEnabled)
           goesOn == due => VibrateReturns(made)
       IN  /\ pulse' = IF due THEN made ELSE NoPulse
           /\ sinceVibrate' = IF due /\ goesOn THEN 0 ELSE sinceVibrate
           /\ touchTicking' = ~goesOn
           /\ sincePulse' = IF due /\ made.calls > 0
                            THEN [sincePulse EXCEPT !.move = 0]
                            ELSE sincePulse
    /\ UNCHANGED <<isActive, smoothedPosition, decayTimers, fingers, decayAges,
                   notTouch>>

\* handleTouchEnd (lines 342-362): a finger leaves the screen.
TouchEnd ==
    /\ shouldAnimate
    /\ fingers > 0
    /\ decayTimers < MaxDecayTimers
    /\ fingers' = fingers - 1
    /\ isActive' = FALSE
    /\ pulse' = Vibrate("release", PatternRelease, TrackerInstances, hookEnabled)
    /\ decayTimers' = IF VibrateReturns(pulse') THEN decayTimers + 1 ELSE decayTimers
    /\ decayAges' = IF VibrateReturns(pulse') THEN Append(decayAges, 0) ELSE decayAges
    /\ UNCHANGED <<touchPosition, smoothedPosition, touchTicking, moveFrame,
                   smoothingAge, touchHist, sinceVibrate, sincePulse, notTouch>>

\* One tick of the i-th live interval of handleTouchEnd (lines 349-361).
DecayTickOf(i) ==
    /\ LET r == Decayed(touchPosition)
       IN  /\ SetTouchPosition(r.position, "decay")
           /\ decayTimers' = IF r.cleared THEN decayTimers - 1 ELSE decayTimers
           /\ decayAges' = IF r.cleared THEN ClearInterval(decayAges, i)
                                        ELSE [decayAges EXCEPT ![i] = 0]
    /\ pulse' = NoPulse
    /\ UNCHANGED <<isActive, smoothedPosition, touchTicking, moveFrame, fingers,
                   sinceVibrate, sincePulse, notTouch>>

\* One tick of one interval of handleTouchEnd, at whatever time.
DecayTick == \E i \in 1..Len(decayAges) : DecayTickOf(i)

\* One tick of the smoothing interval (lines 376-388), at whatever time. The
\* render it causes leaves the effect's dependencies as they are.
SmoothTick ==
    /\ shouldAnimate
    /\ smoothedPosition' = Smoothed(smoothedPosition, touchPosition)
    /\ smoothingAge' = 0
    /\ pulse' = NoPulse
    /\ UNCHANGED <<touchPosition, isActive, touchTicking, moveFrame, decayTimers,
                   fingers, decayAges, touchHist, sinceVibrate, sincePulse, notTouch>>

\* Client coordinates of the touches considered: the corners and the centre of
\* a 390 x 844 window, and a point outside it.
TouchPoints == {<<0, 0>>, <<195, 422>>, <<390, 422>>, <<1000, 844>>}

NextTouch ==
    \/ \E p \in TouchPoints : TouchStart(p)
    \/ \E p \in TouchPoints : TouchMove(p)
    \/ TouchMoveFrame
    \/ TouchEnd
    \/ DecayTick

\* The tracker with a clock. Time passes in steps of ElapseMs, and only while
\* no interval is due: the browser runs an interval's callback when its
\* period has passed, and React renders a state change, and runs the effects
\* that depend on it, before the next timer fires.
ElapseMs == 8

DecayDue(i) == decayAges[i] >= DecayMs
SmoothingDue == shouldAnimate /\ smoothingAge >= SmoothingRate

Elapse ==
    /\ ~SmoothingDue
    /\ \A i \in 1..Len(decayAges) : ~DecayDue(i)
    /\ smoothingAge' = IF shouldAnimate THEN smoothingAge + ElapseMs ELSE smoothingAge
    /\ decayAges' = [i \in 1..Len(decayAges) |-> decayAges[i] + ElapseMs]
    /\ sinceRaw' = IF sinceRaw >= SlowSmoothingMs THEN sinceRaw ELSE sinceRaw + ElapseMs
    /\ pulse' = NoPulse
    /\ UNCHANGED <<touchState, rawBy, sinceVibrate, sincePulse, notTouch>>

\* The ticks of the intervals at their times.
TimedDecayTick == \E i \in 1..Len(decayAges) : DecayDue(i) /\ DecayTickOf(i)
TimedSmoothTick == SmoothingDue /\ SmoothTick

\* Touches near the centre of the 390 x 844 window: offsets of 0.02 at full
\* quality, which decay to (0,0) in a few ticks.
SmoothingTouchPoints == {<<203, 422>>, <<195, 439>>}

NextSmoothing ==
    \/ \E p \in SmoothingTouchPoints : TouchStart(p)
    \/ \E p \in SmoothingTouchPoints : TouchMove(p)
    \/ TouchMoveFrame
    \/ TouchEnd
    \/ TimedDecayTick
    \/ TimedSmoothTick
    \/ Elapse

(***************************************************************************)
(* useMousePosition                                                        *)
(***************************************************************************)
\* A component of the position of lines 191-192:
\* ((client - inner / 2) / inner) * animationQuality, in thousandths.
MouseOffsetFullQuality(client, inner, quality) ==
    Quot((2 * client - inner) * 1000, 2 * inner)
MouseOffset(client, inner, quality) ==
    Quot((2 * client - inner) * 100 * quality, 2 * inner)

\* The event a frame callback computes the position from: the one its
\* closure holds (line 191), whatever moves the handler received since.
CommittedEventLatest(callbacks, latest) == latest
CommittedEvent(callbacks, latest) == callbacks[Len(callbacks)]

InitMouse ==
    /\ mouseTicking = FALSE
    /\ mouseFrame = <<>>
    /\ lastMove = <<>>

\* handleMouseMove (lines 187-198) up to the scheduling of its frame callback;
\* it does nothing while a callback is pending. The listener exists while
\* shouldAnimate holds (line 185).
MouseMove(p) ==
    /\ shouldAnimate
    /\ lastMove' = p
    /\ IF MayRequestFrame(mouseTicking)
       THEN /\ mouseFrame' = Append(mouseFrame, p)
            /\ mouseTicking' = TRUE
       ELSE UNCHANGED <<mouseFrame, mouseTicking>>
    /\ UNCHANGED <<samplerVars, samplerHist, windowVars, policyVars, touchVars,
                   fusionVars, viewVars, effectVars, permissionVars, hapticVars>>

\* A rendering frame runs the callbacks of handleMouseMove (lines 189-195)
\* that are pending, oldest first: each reads the window when it runs.
MouseMoveFrame ==
    /\ mouseFrame # <<>>
    /\ LET e == CommittedEvent(mouseFrame, lastMove)
       IN  mousePosition' = [x |-> MouseOffset(e[1], innerWidth, animationQuality),
                             y |-> MouseOffset(e[2], innerHeight, animationQuality)]
    /\ mouseTicking' = FALSE
    /\ mouseFrame' = <<>>
    /\ UNCHANGED lastMove
    /\ UNCHANGED <<samplerVars, samplerHist, windowVars, policyVars, touchVars,
                   hasTouch, isMobile, screenSize, orientation, orientationSupported,
                   viewVars, effectVars, permissionVars, hapticVars>>

\* Client coordinates of the mouse events considered: the corner, the centre
\* and the middle of the right edge of the window as it is at the event.
MousePoints == {<<0, 0>>, <<innerWidth \div 2, innerHeight \div 2>>,
                <<innerWidth, innerHeight \div 2>>}
MouseViewports == {<<1920, 1080>>, <<1024, 768>>, <<768, 1024>>, <<390, 844>>}

NextMouse ==
    \/ \E p \in MousePoints : MouseMove(p)
    \/ MouseMoveFrame
    \/ \E v \in MouseViewports : Resize(v)

(***************************************************************************)
(* useDeviceOrientation: the permission request                            *)
(*                                                                         *)
(* The effect of lines 402-462 lists vibrate and patterns among its        *)
(* dependencies; useHapticFeedback creates both anew at every call, so the *)
(* effect is cleaned up and run again after every render of the hook.      *)
(***************************************************************************)
\* Bound: calls of requestPermission() followed.
MaxRequests == 3

OrientationApis == {"permission", "plain", "missing"}
Outcomes == {"granted", "denied", "throws"}

\* The hook after its first effect: handleFirstTouch is registered when
\* shouldAnimate holds (lines 403, 457).
InitPermission ==
    /\ firstTouchArmed = shouldAnimate
    /\ permissionPending = 0
    /\ permissionRequests = 0
    /\ lastOutcome = "none"
    /\ orientationListener = FALSE
    /\ stalePending = <<>>
    /\ leakedListeners = {}
    /\ rawOrientation = Origin
    /\ orientationTicking = FALSE
    /\ orientationFrame = <<>>

\* A touchstart reaches handleFirstTouch (lines 452-455), which removes itself
\* and calls requestPermission (lines 425-449) up to its await. The vibrate and
\* the handleOrientation of requestPermission are those of the run of the
\* effect that created it. Where DeviceOrientationEvent has no
\* requestPermission, setIsSupported(true) runs at once and handleOrientation
\* is added (line 447); when setIsSupported changes the state the hook renders:
\* the cleanup removes the listener just added and the effect registers
\* handleFirstTouch again.
FirstTouch ==
    /\ firstTouchArmed
    /\ orientationApi = "permission" => permissionRequests < MaxRequests
    /\ permissionRequests' =
           IF orientationApi = "permission" THEN permissionRequests + 1
           ELSE permissionRequests
    /\ permissionPending' =
           IF orientationApi = "permission" THEN permissionPending + 1
           ELSE permissionPending
    /\ orientationSupported' = (orientationSupported \/ orientationApi = "plain")
    /\ IF orientationApi = "plain" /\ ~orientationSupported
       THEN RerunOrientationEffect(shouldAnimate)
       ELSE /\ firstTouchArmed' = FALSE
            /\ orientationListener' = (orientationListener \/ orientationApi = "plain")
            /\ UNCHANGED stalePending
    /\ pulse' = IF orientationApi = "plain"
                THEN Vibrate("orientation", PatternGentle, 1, hookEnabled)
                ELSE NoPulse
    /\ UNCHANGED <<orientationApi, lastOutcome, leakedListeners, rawOrientation,
                   orientationTicking, orientationFrame, hasTouch, isMobile, screenSize,
                   mousePosition, orientation, mouseVars, viewVars, samplerVars,
                   samplerHist, windowVars, policyVars, touchVars, hapticConfig,
                   sinceVibrate, sincePulse>>

\* The promise of a requestPermission settles (lines 429-440): request i of
\* the runs cleaned up since, or with i = 0 a request of the effect's latest
\* run. When granted, handleOrientation of the requesting run is added (line
\* 437): no cleanup will remove the one of a run already cleaned up. When
\* setIsSupported(true) changes the state the hook renders.
PermissionSettled(outcome, i) ==
    /\ permissionPending > 0
    /\ IF i = 0 THEN permissionPending > Len(stalePending) ELSE i \in DOMAIN stalePending
    /\ permissionPending' = permissionPending - 1
    /\ lastOutcome' = outcome
    /\ orientationSupported' = (orientationSupported \/ outcome = "granted")
    /\ leakedListeners' = IF outcome = "granted" /\ i # 0
                          THEN leakedListeners \cup {stalePending[i]}
                          ELSE leakedListeners
    /\ LET stale == IF i = 0 THEN stalePending
                    ELSE SubSeq(stalePending, 1, i - 1)
                           \o SubSeq(stalePending, i + 1, Len(stalePending))
       IN  IF outcome = "granted" /\ ~orientationSupported
           THEN /\ firstTouchArmed' = shouldAnimate
                /\ orientationListener' = FALSE
                /\ stalePending' =
                       stale \o [j \in 1..(permissionPending' - Len(stale)) |->
                                   animationQuality]
           ELSE /\ orientationListener' =
                       (orientationListener \/ (outcome = "granted" /\ i = 0))
                /\ stalePending' = stale
                /\ UNCHANGED firstTouchArmed
    /\ pulse' = CASE outcome = "granted" ->
                       Vibrate("orientation", PatternSuccess, 1, hookEnabled)
                  [] outcome = "throws" ->
                       Vibrate("orientation", PatternError, 1, hookEnabled)
                  [] outcome = "denied" -> NoPulse
    /\ UNCHANGED <<orientationApi, permissionRequests, rawOrientation,
                   orientationTicking, orientationFrame, hasTouch, isMobile, screenSize,
                   mousePosition, orientation, mouseVars, viewVars, samplerVars,
                   samplerHist, windowVars, policyVars, touchVars, hapticConfig,
                   sinceVibrate, sincePulse>>

\* The component renders for a reason of its own (its tracker's state, its
\* mouse position, its smoothing interval, its parent): cleanup of lines
\* 459-462, then the effect again.
OrientationRender ==
    /\ shouldAnimate
    /\ \/ ~firstTouchArmed
       \/ orientationListener
       \/ permissionPending > Len(stalePending)
    /\ RerunOrientationEffect(shouldAnimate)
    /\ pulse' = NoPulse
    /\ UNCHANGED <<permissionVars, fusionVars, mouseVars, viewVars, samplerVars,
                   samplerHist, windowVars, policyVars, touchVars, hapticConfig,
                   sinceVibrate, sincePulse>>

\* The raw orientation of lines 408-417 for an event with gamma and beta in
\* degrees: clamp(gamma, 20) / 20 * 0.6 * quality and
\* clamp(beta - 45, 20) / 20 * 0.4 * quality, in thousandths.
TiltLimit == 20
ClampTilt(v) == IF v < -TiltLimit THEN -TiltLimit ELSE IF v > TiltLimit THEN TiltLimit ELSE v
OrientationOf(e, quality) ==
    [x |-> ClampTilt(e[1]) * 3 * quality, y |-> ClampTilt(e[2] - 45) * 2 * quality]

\* The animationQuality in the closures of the handleOrientation listeners.
OrientationHandlers ==
    leakedListeners \cup (IF orientationListener THEN {animationQuality} ELSE {})

\* The browser dispatches a deviceorientation event e to the listeners. They
\* share ticking.current: the first to run requests the frame callback
\* (lines 405-423), the others find one pending.
OrientationEvent(e) ==
    /\ OrientationHandlers # {}
    /\ MayRequestFrame(orientationTicking)
    /\ \E q \in OrientationHandlers :
           orientationFrame' = Append(orientationFrame, [event |-> e, quality |-> q])
    /\ orientationTicking' = TRUE
    /\ pulse' = NoPulse
    /\ UNCHANGED <<effectVars, orientationApi, permissionPending, permissionRequests,
                   lastOutcome, leakedListeners, rawOrientation, fusionVars, mouseVars,
                   viewVars, samplerVars, samplerHist, windowVars, policyVars, touchVars,
                   hapticConfig, sinceVibrate, sincePulse>>

\* A rendering frame runs the callbacks of handleOrientation (lines 407-420)
\* that are pending, oldest first; setOrientation renders the hook. Nothing
\* cancels them.
OrientationFrame ==
    /\ orientationFrame # <<>>
    /\ LET c == orientationFrame[Len(orientationFrame)]
       IN  rawOrientation' = OrientationOf(c.event, c.quality)
    /\ orientationTicking' = FALSE
    /\ orientationFrame' = <<>>
    /\ RerunOrientationEffect(shouldAnimate)
    /\ pulse' = NoPulse
    /\ UNCHANGED <<orientationApi, permissionPending, permissionRequests, lastOutcome,
                   leakedListeners, fusionVars, mouseVars, viewVars, samplerVars,
                   samplerHist, windowVars, policyVars, touchVars, hapticConfig,
                   sinceVibrate, sincePulse>>

\* The deviceorientation events considered: the device held at rest (beta 45)
\* and tilted beyond the clamp on one axis.
OrientationEvents == {<<0, 45>>, <<30, 35>>}

NextPermission ==
    \/ FirstTouch
    \/ \E outcome \in Outcomes, i \in 0..MaxRequests : PermissionSettled(outcome, i)
    \/ OrientationRender
    \/ \E e \in OrientationEvents : OrientationEvent(e)
    \/ OrientationFrame

(***************************************************************************)
(* useInteractionPosition                                                  *)
(***************************************************************************)
\* getScreenSizeMultiplier (lines 504-508), in hundredths.
ScreenSizeMultiplier(width) ==
    IF width < 400 THEN 70 ELSE IF width < 768 THEN 85 ELSE 100

\* What the hook returns (lines 512-531), in units of 10^-7: a position in
\* thousandths times a multiplier in hundredths times a coefficient in hundredths.
InteractionOrientationFirst ==
    LET m == ScreenSizeMultiplier(screenSize.width)
    IN  IF isMobile
        THEN IF orientationSupported
             THEN [x |-> orientation.x * 15 * m, y |-> orientation.y * 10 * m]
             ELSE IF isActive
             THEN [x |-> smoothedPosition.x * m * 100, y |-> smoothedPosition.y * m * 100]
             ELSE [x |-> 0, y |-> 0]
        ELSE [x |-> mousePosition.x * 10000, y |-> mousePosition.y * 10000]
InteractionCoefficientsSwapped ==
    LET m == ScreenSizeMultiplier(screenSize.width)
    IN  IF isMobile
        THEN IF isActive
             THEN [x |-> smoothedPosition.x * m * 100, y |-> smoothedPosition.y * m * 100]
             ELSE IF orientationSupported
             THEN [x |-> orientation.x * 10 * m, y |-> orientation.y * 15 * m]
             ELSE [x |-> 0, y |-> 0]
        ELSE [x |-> mousePosition.x * 10000, y |-> mousePosition.y * 10000]
InteractionPosition ==
    LET m == ScreenSizeMultiplier(screenSize.width)
    IN  IF isMobile
        THEN IF isActive
             THEN [x |-> smoothedPosition.x * m * 100, y |-> smoothedPosition.y * m * 100]
             ELSE IF orientationSupported
             THEN [x |-> orientation.x * 15 * m, y |-> orientation.y * 10 * m]
             ELSE [x |-> 0, y |-> 0]
        ELSE [x |-> mousePosition.x * 10000, y |-> mousePosition.y * 10000]

\* The hook after its mount effect (checkDevice, line 498).
InitFusion ==
    /\ isMobile = CheckDevice(innerWidth, hasTouch)
    /\ screenSize = [width |-> innerWidth, height |-> innerHeight]
    /\ mousePosition = Origin
    /\ orientation = Origin
    /\ orientationSupported = FALSE

\* useMousePosition (lines 179-205) returns another position.
MouseOutputs == {Origin, [x |-> -250, y |-> 300]}
MouseOutput(m) ==
    /\ m # mousePosition
    /\ mousePosition' = m
    /\ UNCHANGED <<hasTouch, isMobile, screenSize, orientation, orientationSupported,
                   samplerVars, samplerHist, windowVars, policyVars, touchVars,
                   restVars>>

\* useDeviceOrientation (lines 393-481) reports orientation access (lines 431, 443).
OrientationGranted ==
    /\ ~orientationSupported
    /\ orientationSupported' = TRUE
    /\ UNCHANGED <<hasTouch, isMobile, screenSize, mousePosition, orientation,
                   samplerVars, samplerHist, windowVars, policyVars, touchVars,
                   restVars>>

\* useDeviceOrientation returns another smoothed orientation (lines 469-475).
OrientationOutputs == {Origin, [x |-> 600, y |-> -400]}
OrientationOutput(o) ==
    /\ orientationSupported
    /\ o # orientation
    /\ orientation' = o
    /\ UNCHANGED <<hasTouch, isMobile, screenSize, mousePosition, orientationSupported,
                   samplerVars, samplerHist, windowVars, policyVars, touchVars,
                   restVars>>

\* Windows of the fusion's specification.
FusionViewports == {<<390, 844>>, <<767, 1024>>, <<768, 1024>>}
\* A touch a little right of and below the middle of the window: the offsets
\* it yields are about a hundredth, so a decay lasts a few ticks.
FusionTouchPoints == {<<innerWidth \div 2 + 5, innerHeight \div 2 + 11>>}

\* The fusion reads the tracker's isActive and smoothed position; touchmove,
\* which sets only the raw position as touchstart does, is left to NextTouch.
NextFusion ==
    \/ \E p \in FusionTouchPoints : TouchStart(p)
    \/ TouchEnd
    \/ DecayTick
    \/ SmoothTick
    \/ \E v \in FusionViewports : Resize(v)
    \/ \E m \in MouseOutputs : MouseOutput(m)
    \/ OrientationGranted
    \/ \E o \in OrientationOutputs : OrientationOutput(o)

(***************************************************************************)
(* useScrollAnimation (lines 121-152)                                      *)
(*                                                                         *)
(* The browser computes the intersection of an observed element once per   *)
(* frame, queues an entry when the element is newly observed or crosses    *)
(* the threshold, and delivers the queued entries to the callback later.   *)
(* unobserve stops the computing; it does not empty the queue.             *)
(***************************************************************************)
\* Bound: entries queued in the live observer and not yet delivered.
MaxEntries == 2

\* threshold of line 129, in per cent.
RevealThreshold(level) == IF level = "low" THEN 30 ELSE 10
\* entry.isIntersecting for an element of which r per cent is inside the root.
IsIntersecting(r, level) == r > 0 /\ r >= RevealThreshold(level)

\* The callback of lines 134-139 on isVisible.
RevealFollowsEntry(visible, intersecting) == intersecting
RevealCallback(visible, intersecting) == IF intersecting THEN TRUE ELSE visible

InitVisibility ==
    /\ isVisible = FALSE
    /\ revealLevel = "high"
    /\ ratio = 0
    /\ reported = "fresh"
    /\ entries = <<>>
    /\ staleEntries = {}

\* The page is scrolled or laid out so that r per cent of the element is
\* inside the root, and the live observer computes its intersection.
Observation(r) ==
    /\ ratio' = r
    /\ LET now == IF IsIntersecting(r, revealLevel) THEN "in" ELSE "out"
       IN  IF reported = "unobserved" \/ reported = now
           THEN UNCHANGED <<reported, entries>>
           ELSE /\ Len(entries) < MaxEntries
                /\ reported' = now
                /\ entries' = Append(entries, now = "in")
    /\ UNCHANGED <<isVisible, revealLevel, staleEntries, notVisibility>>

\* The live observer delivers its queue: the callback takes the first entry
\* ([entry], line 133) and unobserves the element if that one intersects.
Deliver ==
    /\ entries # <<>>
    /\ isVisible' = RevealCallback(isVisible, Head(entries))
    /\ reported' = IF Head(entries) THEN "unobserved" ELSE reported
    /\ entries' = <<>>
    /\ UNCHANGED <<revealLevel, ratio, staleEntries, notVisibility>>

\* An observer of an earlier run of the effect delivers an entry it still
\* holds; its unobserve (line 137) finds nothing to stop.
DeliverStale(e) ==
    /\ e \in staleEntries
    /\ isVisible' = RevealCallback(isVisible, e)
    /\ staleEntries' = staleEntries \ {e}
    /\ UNCHANGED <<revealLevel, ratio, reported, entries, notVisibility>>

\* The tier of the hook's sampler changes: the effect is cleaned up (line
\* 147 unobserves the element) and runs again (lines 126-144 create an
\* observer and observe the element, whatever isVisible is).
RevealLevelChange(level) ==
    /\ level # revealLevel
    /\ revealLevel' = level
    /\ staleEntries' = staleEntries \cup {entries[i] : i \in DOMAIN entries}
    /\ entries' = <<>>
    /\ reported' = "fresh"
    /\ UNCHANGED <<isVisible, ratio, notVisibility>>

\* Parts of the element inside the root, in per cent: around both thresholds.
Ratios == {0, 5, 10, 20, 30, 100}

NextVisibility ==
    \/ \E r \in Ratios : Observation(r)
    \/ Deliver
    \/ \E e \in BOOLEAN : DeliverStale(e)
    \/ \E level \in Levels : RevealLevelChange(level)

(***************************************************************************)
(* useParallax (lines 154-177) and ParallaxElement (lines 534-612)         *)
(*                                                                         *)
(* ParallaxElement and the useParallax it calls each create a              *)
(* useOptimizedAnimation of their own with the default argument; both read *)
(* the same window and samplers nothing starts, so one set of policy       *)
(* variables stands for the two. Lengths are in thousandths of a px.       *)
(***************************************************************************)
\* sizeMultiplier of line 569, in tenths.
SizeMultiplier(size) ==
    CASE size = "large" -> 6
      [] size = "small" -> 12
      [] OTHER -> 10
\* The px of line 584 before animationQuality is applied.
MaxDisplacement(size) ==
    CASE size = "large" -> 30
      [] size = "small" -> 60
      [] OTHER -> 45
\* maxMovement of line 584.
MaxMovement(size, quality) == MaxDisplacement(size) * quality * 100

\* Math.max(-bound, Math.min(bound, v)) of lines 601 and 605.
ClampTo(bound, v) == IF v < -bound THEN -bound ELSE IF v > bound THEN bound ELSE v

\* interactionPosition.x * adjustedInteractionSpeed * 40 (line 603; 25 for y,
\* line 606) with adjustedInteractionSpeed of line 570; v is in thousandths.
Displacement(v, coefficient) ==
    Quot(Quot(v * element.interactionSpeed, 100)
           * SizeMultiplier(element.size) * animationQuality * coefficient, 100)

\* The fused vector of line 548, in thousandths.
InteractionVector == [x |-> Quot(InteractionPosition.x, 10000),
                      y |-> Quot(InteractionPosition.y, 10000)]

\* What useParallax returns (line 176).
ScrollOffsetStored == offset
ScrollOffset == IF shouldAnimate THEN offset ELSE 0

\* shouldRender of line 587.
ShouldRenderInViewOnly == isInView
ShouldRender == consumerLevel # "low" \/ isInView

\* The style ParallaxElement renders its div with (lines 589-611): none, or
\* the translation of translate3d and the transition's duration in ms.
NoStyle == [styled |-> FALSE, x |-> 0, y |-> 0, transitionMs |-> 0]
ElementStyle ==
    IF ~shouldAnimate \/ ~ShouldRender
    THEN NoStyle
    ELSE LET bound == MaxMovement(element.size, animationQuality)
         IN  [styled |-> TRUE,
              x |-> ClampTo(bound, Displacement(InteractionVector.x, 40)),
              y |-> ScrollOffset + ClampTo(bound, Displacement(InteractionVector.y, 25)),
              transitionMs |-> IF consumerLevel = "low" THEN 1000 ELSE 700]

\* The first element of BackgroundElements (line 701) after its mount.
InitParallax ==
    /\ element = [speed |-> 20, interactionSpeed |-> 8, size |-> "large"]
    /\ pageYOffset = 0
    /\ offset = 0
    /\ scrollTicking = FALSE
    /\ scrollFrame = <<>>
    /\ isInView = TRUE

\* The page is scrolled to y. handleScroll (lines 162-170) is registered
\* while shouldAnimate holds (line 160) and requests a frame callback unless
\* one is pending.
Scroll(y) ==
    /\ y # pageYOffset
    /\ pageYOffset' = y
    /\ IF shouldAnimate /\ MayRequestFrame(scrollTicking)
       THEN /\ scrollTicking' = TRUE
            /\ scrollFrame' = Append(scrollFrame, animationQuality)
       ELSE UNCHANGED <<scrollTicking, scrollFrame>>
    /\ UNCHANGED <<element, offset, isInView, notParallax>>

\* A rendering frame runs the callbacks of handleScroll (lines 164-167) that
\* are pending, oldest first: each reads the scroll position when it runs.
\* Nothing cancels them.
ScrollFrame ==
    /\ scrollFrame # <<>>
    /\ offset' = pageYOffset * element.speed * scrollFrame[Len(scrollFrame)]
    /\ scrollTicking' = FALSE
    /\ scrollFrame' = <<>>
    /\ UNCHANGED <<element, pageYOffset, isInView, notParallax>>

\* The observer of lines 553-566, which exists while the tier is low,
\* reports whether the element intersects the viewport grown by 100 px.
CullReport(intersecting) ==
    /\ consumerLevel = "low"
    /\ intersecting # isInView
    /\ isInView' = intersecting
    /\ UNCHANGED <<element, pageYOffset, offset, scrollTicking, scrollFrame,
                   notParallax>>

\* Elements of BackgroundElements (lines 701, 733, 778), and an element whose
\* interactionSpeed is large enough for the clamp to act.
Elements == {[speed |-> 20, interactionSpeed |-> 8, size |-> "large"],
             [speed |-> 40, interactionSpeed |-> 15, size |-> "medium"],
             [speed |-> 45, interactionSpeed |-> 25, size |-> "small"],
             [speed |-> 50, interactionSpeed |-> 400, size |-> "medium"]}
\* Scroll positions, in px.
ScrollPositions == {0, 100, 1000}
\* Vectors useMousePosition returns: the centre, a corner of the window, and
\* a point outside it (a move whose callback ran after a resize).
ParallaxVectors == {Origin, [x |-> 500, y |-> -500], [x |-> -2000, y |-> 27]}
ParallaxViewports == {<<1024, 768>>, <<768, 1024>>}

NextParallax ==
    \/ \E y \in ScrollPositions : Scroll(y)
    \/ ScrollFrame
    \/ \E b \in BOOLEAN : CullReport(b)
    \/ \E level \in Levels : ConsumerLevelChange(level)
    \/ PolicyEffect
    \/ \E v \in ParallaxViewports : Resize(v)
    \/ \E m \in ParallaxVectors : MouseOutput(m)

(***************************************************************************)
(* The page: Home mounts BackgroundElements, HapticToggle and HeroParallax *)
(* (lines 1040-1045)                                                       *)
(***************************************************************************)
\* The page is loaded again: a new session. Every hook is mounted anew and
\* runs its mount effect; localStorage and the device are what they were.
\* The page mounts no PerformanceMonitor, so no sampler of it runs.
PageLoad ==
    /\ toggleEnabled' = SavedPreference(storage)
    /\ hookEnabled' = SavedPreference(storage)
    /\ mountEnabled' = SavedPreference(storage)
    /\ hapticMobile' = CheckDevice(innerWidth, hasTouch)
    /\ hapticSupported' = (CheckDevice(innerWidth, hasTouch) /\ canVibrate)
    /\ buttonMobile' = CheckDevice(innerWidth, hasTouch)
    /\ sinceVibrate' = SinceCap
    /\ sincePulse' = [touch |-> SinceCap, move |-> SinceCap]
    /\ pulse' = NoPulse
    /\ toggles' = 0
    /\ touchPosition' = Origin /\ isActive' = FALSE /\ smoothedPosition' = Origin
    /\ touchTicking' = FALSE /\ moveFrame' = <<>> /\ decayTimers' = 0 /\ fingers' = 0
    /\ smoothingAge' = 0 /\ decayAges' = <<>> /\ sinceRaw' = 0 /\ rawBy' = "none"
    /\ isMobile' = CheckDevice(innerWidth, hasTouch)
    /\ screenSize' = [width |-> innerWidth, height |-> innerHeight]
    /\ mousePosition' = Origin /\ orientation' = Origin /\ orientationSupported' = FALSE
    /\ mouseTicking' = FALSE /\ mouseFrame' = <<>> /\ lastMove' = <<>>
    /\ firstTouchArmed' = Policy("high", TRUE, innerWidth).shouldAnimate
    /\ permissionPending' = 0 /\ permissionRequests' = 0 /\ lastOutcome' = "none"
    /\ orientationListener' = FALSE /\ stalePending' = <<>> /\ leakedListeners' = {}
    /\ rawOrientation' = Origin /\ orientationTicking' = FALSE
    /\ orientationFrame' = <<>>
    /\ consumerLevel' = "high" /\ enabled' = TRUE
    /\ shouldAnimate' = Policy("high", TRUE, innerWidth).shouldAnimate
    /\ animationQuality' = Policy("high", TRUE, innerWidth).animationQuality
    /\ policyDeps' = <<"high", TRUE>>
    /\ widthSeen' = innerWidth
    /\ UNCHANGED <<canVibrate, vibrateThrows, storage, hasTouch, orientationApi,
                   windowVars, samplerVars, samplerHist, viewVars>>

\* Windows of the haptics' specifications: a phone and a desktop.
HapticViewports == {<<390, 844>>, <<1024, 768>>}
\* The touch considered there: the top left corner, 0.707 from the centre.
HapticTouchPoints == {<<0, 0>>}

NextToggle ==
    \/ ToggleHaptics
    \/ PageLoad
    \/ \E v \in HapticViewports : Resize(v)

NextHaptic ==
    \/ \E p \in HapticTouchPoints : TouchStart(p)
    \/ \E p \in HapticTouchPoints : TouchMove(p)
    \/ TouchMoveFrame
    \/ TouchEnd
    \/ DecayTick
    \/ ClockAdvance
    \/ ToggleHaptics

\* The hooks of the rendered elements after their mount effects.
InitView ==
    /\ InitVisibility
    /\ InitParallax

(***************************************************************************)
(* Specifications                                                          *)
(***************************************************************************)
\* The sampler of a mounted PerformanceMonitor, beside a consumer hook whose
\* own sampler nothing starts: no caller of useOptimizedAnimation,
\* useScrollAnimation or Home takes startMonitoring from the instance it creates.
InitSamplerSpec ==
    /\ InitSampler
    /\ innerWidth = 1024 /\ innerHeight = 768
    /\ InitPolicySettled
    /\ InitTouch
    /\ hasTouch = FALSE
    /\ InitFusion
    /\ InitMouse
    /\ orientationApi = "missing"
    /\ InitPermission
    /\ canVibrate = FALSE /\ vibrateThrows = FALSE /\ storage = NoItem
    /\ InitHaptic
    /\ InitView
SamplerSpec == InitSamplerSpec /\ [][NextSampler]_vars

\* One useOptimizedAnimation instance with its inputs (the tier of its sampler,
\* its argument, the window) drawn from their ranges.
InitPolicySpec ==
    /\ InitSampler
    /\ \E v \in Viewports : innerWidth = v[1] /\ innerHeight = v[2]
    /\ InitPolicy
    /\ InitTouch
    /\ hasTouch = FALSE
    /\ InitFusion
    /\ InitMouse
    /\ orientationApi = "missing"
    /\ InitPermission
    /\ canVibrate = FALSE /\ vibrateThrows = FALSE /\ storage = NoItem
    /\ InitHaptic
    /\ InitView
PolicySpec == InitPolicySpec /\ [][NextPolicy]_vars

\* One useTouchPosition instance on a 390 x 844 touch screen, its policy at
\* the values it has on the page (shouldAnimate, quality 1).
InitTouchSpec ==
    /\ InitSampler
    /\ innerWidth = 390 /\ innerHeight = 844
    /\ InitPolicySettled
    /\ InitTouch
    /\ hasTouch = TRUE
    /\ InitFusion
    /\ InitMouse
    /\ orientationApi = "missing"
    /\ InitPermission
    /\ canVibrate = FALSE /\ vibrateThrows = FALSE /\ storage = NoItem
    /\ InitHaptic
    /\ InitView
TouchSpec == InitTouchSpec /\ [][NextTouch]_vars
\* The tracker with the scheduling of browsers: an interval of handleTouchEnd
\* ticks as long as it is live (setInterval, line 349), and a frame callback
\* that was requested runs in some later frame (requestAnimationFrame, line
\* 311). Touch events may stop at any time.
LiveTouchSpec ==
    InitTouchSpec /\ [][NextTouch]_vars /\ WF_vars(DecayTick) /\ WF_vars(TouchMoveFrame)

\* One useInteractionPosition instance: its touch tracker, its device check,
\* and the outputs of its mouse and orientation hooks drawn from their ranges
\* (OrientationGranted stands for whatever made the orientation hook report
\* isSupported; the permission request itself is stepped in PermissionSpec).
InitFusionSpec ==
    /\ InitSampler
    /\ \E v \in FusionViewports : innerWidth = v[1] /\ innerHeight = v[2]
    /\ InitPolicySettled
    /\ InitTouch
    /\ hasTouch \in BOOLEAN
    /\ InitFusion
    /\ InitMouse
    /\ orientationApi = "missing"
    /\ InitPermission
    /\ canVibrate = FALSE /\ vibrateThrows = FALSE /\ storage = NoItem
    /\ InitHaptic
    /\ InitView
FusionSpec == InitFusionSpec /\ [][NextFusion]_vars

\* A useOptimizedAnimation instance after its effect, at any tier of its
\* sampler, with the default argument.
InitPolicyAnyTier ==
    /\ consumerLevel \in Levels
    /\ enabled = TRUE
    /\ shouldAnimate = Policy(consumerLevel, TRUE, innerWidth).shouldAnimate
    /\ animationQuality = Policy(consumerLevel, TRUE, innerWidth).animationQuality
    /\ policyDeps = <<consumerLevel, TRUE>>
    /\ widthSeen = innerWidth

\* One useMousePosition instance under the fusion's device check, its policy
\* settled at any tier, the window resized at will.
InitMouseSpec ==
    /\ InitSampler
    /\ \E v \in MouseViewports : innerWidth = v[1] /\ innerHeight = v[2]
    /\ InitPolicyAnyTier
    /\ InitTouch
    /\ hasTouch \in BOOLEAN
    /\ InitFusion
    /\ InitMouse
    /\ orientationApi = "missing"
    /\ InitPermission
    /\ canVibrate = FALSE /\ vibrateThrows = FALSE /\ storage = NoItem
    /\ InitHaptic
    /\ InitView
MouseSpec == InitMouseSpec /\ [][NextMouse]_vars

\* One useDeviceOrientation instance on each kind of platform, its policy
\* settled at any tier, rendered at will.
InitPermissionSpec ==
    /\ InitSampler
    /\ innerWidth = 390 /\ innerHeight = 844
    /\ InitPolicyAnyTier
    /\ InitTouch
    /\ hasTouch = TRUE
    /\ InitFusion
    /\ InitMouse
    /\ orientationApi \in OrientationApis
    /\ InitPermission
    /\ canVibrate = TRUE /\ vibrateThrows = FALSE /\ storage = NoItem
    /\ InitHaptic
    /\ InitView
PermissionSpec == InitPermissionSpec /\ [][NextPermission]_vars

\* The devices of the haptics' specifications: with or without the vibration
\* capability (which may throw), touch support and a stored preference.
InitDevice ==
    /\ \E v \in HapticViewports : innerWidth = v[1] /\ innerHeight = v[2]
    /\ hasTouch \in BOOLEAN
    /\ canVibrate \in BOOLEAN
    /\ vibrateThrows \in BOOLEAN
    /\ vibrateThrows => canVibrate
    /\ storage \in {NoItem, "true", "false"}

\* HapticToggle on the page, across page loads and resizes.
InitToggleSpec ==
    /\ InitSampler
    /\ InitDevice
    /\ InitPolicySettled
    /\ InitTouch
    /\ InitFusion
    /\ InitMouse
    /\ orientationApi = "missing"
    /\ InitPermission
    /\ InitHaptic
    /\ InitView
ToggleSpec == InitToggleSpec /\ [][NextToggle]_vars

\* The trackers of the page and HapticToggle during one page load, with time.
HapticSpec == InitToggleSpec /\ [][NextHaptic]_vars

\* One useScrollAnimation instance and its element, the tier of its sampler
\* and the element's place drawn from their ranges.
InitVisibilitySpec == InitSamplerSpec
VisibilitySpec == InitVisibilitySpec /\ [][NextVisibility]_vars

\* One ParallaxElement on a window without touch support, its props, the tier
\* of its sampler, the scroll position and the mouse hook's output drawn from
\* their ranges.
InitParallaxSpec ==
    /\ InitSampler
    /\ \E v \in ParallaxViewports : innerWidth = v[1] /\ innerHeight = v[2]
    /\ InitPolicySettled
    /\ InitTouch
    /\ hasTouch = FALSE
    /\ InitFusion
    /\ InitMouse
    /\ orientationApi = "missing"
    /\ InitPermission
    /\ canVibrate = FALSE /\ vibrateThrows = FALSE /\ storage = NoItem
    /\ InitHaptic
    /\ InitVisibility
    /\ element \in Elements
    /\ pageYOffset = 0 /\ offset = 0 /\ scrollTicking = FALSE /\ scrollFrame = <<>>
    /\ isInView = TRUE
ParallaxSpec == InitParallaxSpec /\ [][NextParallax]_vars

\* The sources of one ParallaxElement on a 768 x 1024 touch screen with a
\* mouse and an orientation sensor: its scroll, mouse, touch and orientation
\* handlers, the tier of its samplers drawn from its range.
SourceScrollPositions == {0, 100}
SourceMousePoints == {<<384, 512>>, <<768, 512>>}
SourceTouchPoints == {<<389, 523>>}
SourceLevels == {"high", "low"}
NextSources ==
    \/ \E y \in SourceScrollPositions : Scroll(y)
    \/ ScrollFrame
    \/ \E p \in SourceMousePoints : MouseMove(p)
    \/ MouseMoveFrame
    \/ \E p \in SourceTouchPoints : TouchStart(p)
    \/ \E p \in SourceTouchPoints : TouchMove(p)
    \/ TouchMoveFrame
    \/ TouchEnd
    \/ DecayTick
    \/ FirstTouch
    \/ OrientationRender
    \/ \E e \in OrientationEvents : OrientationEvent(e)
    \/ OrientationFrame
    \/ \E level \in SourceLevels : ConsumerLevelChange(level)
    \/ PolicyEffect
InitSourcesSpec ==
    /\ InitSampler
    /\ innerWidth = 768 /\ innerHeight = 1024
    /\ InitPolicySettled
    /\ InitTouch
    /\ hasTouch = TRUE
    /\ InitFusion
    /\ InitMouse
    /\ orientationApi = "plain"
    /\ InitPermission
    /\ canVibrate = FALSE /\ vibrateThrows = FALSE /\ storage = NoItem
    /\ InitHaptic
    /\ InitView
SourcesSpec == InitSourcesSpec /\ [][NextSources]_vars

\* The tracker of a phone with its intervals at their times, the policy
\* settled at any tier.
InitSmoothingSpec ==
    /\ InitSampler
    /\ innerWidth = 390 /\ innerHeight = 844
    /\ InitPolicyAnyTier
    /\ InitTouch
    /\ hasTouch = TRUE
    /\ InitFusion
    /\ InitMouse
    /\ orientationApi = "missing"
    /\ InitPermission
    /\ canVibrate = FALSE /\ vibrateThrows = FALSE /\ storage = NoItem
    /\ InitHaptic
    /\ InitView
SmoothingSpec == InitSmoothingSpec /\ [][NextSmoothing]_vars

(***************************************************************************)
(* The page as composed by Home (lines 1021-1230)                          *)
(*                                                                         *)
(* Every call of usePerformanceMonitor creates a sampler of its own. One   *)
(* set of sampler variables stands for each of the instances mounted: an   *)
(* instance is started or stopped only by its owner, and the hooks that    *)
(* own one render with its tier.                                           *)
(***************************************************************************)
\* The owners whose code calls startMonitoring or stopMonitoring of their
\* instance (lines 621, 631, 659, 686); the other owners take only
\* performanceLevel from theirs (lines 95, 124, 1023).
MonitoringCallers == {"PerformanceMonitor"}
\* The owners mounted under Home: Home (line 1023) and the
\* useOptimizedAnimation and useScrollAnimation of the components it renders
\* (lines 1040-1208). No component renders PerformanceMonitor (line 614).
HomeSamplerOwnersWithMonitor ==
    {"Home", "useOptimizedAnimation", "useScrollAnimation", "PerformanceMonitor"}
HomeSamplerOwners == {"Home", "useOptimizedAnimation", "useScrollAnimation"}

\* A step of a sampler instance of the page: a call by an owner that makes
\* such calls, the effect, frame callbacks, the clock; or the render of a
\* hook with the tier its sampler has set.
HomeSamplerStep ==
    /\ HomeSamplerOwners # {}
    /\ \/ /\ HomeSamplerOwners \cap MonitoringCallers # {}
          /\ StartMonitoring \/ StopMonitoring
       \/ MonitorEffect
       \/ \E k \in BurstSizes : FrameCallbacks(k)
       \/ Tick
       \/ ConsumerLevelChange(performanceLevel)
       \/ RevealLevelChange(performanceLevel)

\* Windows of the page: a phone and a desktop.
HomeViewports == {<<390, 844>>, <<1024, 768>>}
\* A touch a little right of the centre of either window.
HomeTouchPoints == {<<innerWidth \div 2 + 8, innerHeight \div 2>>}

\* A section of the page with its observer, its policy and a touch tracker,
\* used at will.
NextHome ==
    \/ HomeSamplerStep
    \/ PolicyEffect
    \/ \E v \in HomeViewports : Resize(v)
    \/ \E r \in Ratios : Observation(r)
    \/ Deliver
    \/ \E p \in HomeTouchPoints : TouchStart(p)
    \/ TouchEnd
    \/ DecayTick

\* The page as mounted: every useOptimizedAnimation is called with its
\* default argument (lines 156-954) and has not run its effect yet.
InitHomeSpec ==
    /\ InitSampler
    /\ \E v \in HomeViewports : innerWidth = v[1] /\ innerHeight = v[2]
    /\ InitPolicy /\ enabled = TRUE
    /\ InitTouch
    /\ hasTouch = TRUE
    /\ InitFusion
    /\ InitMouse
    /\ orientationApi = "missing"
    /\ InitPermission
    /\ canVibrate = FALSE /\ vibrateThrows = FALSE /\ storage = NoItem
    /\ InitHaptic
    /\ InitView
HomeSpec == InitHomeSpec /\ [][NextHome]_vars

(***************************************************************************)
(* Claims                                                                  *)
(***************************************************************************)
Min(a, b) == IF a < b THEN a ELSE b
\* The last n elements of s.
LastN(s, n) == SubSeq(s, Len(s) - n + 1, Len(s))
RecentSamples == LastN(samples, Min(10, Len(samples)))

\* C1: at every window boundary the sample is frames * 1000 / elapsed rounded
\* to the nearest integer (halves up) with elapsed >= 1000, the average the
\* tier is derived from is the mean of the last min(10, n) samples, and the
\* tier is high for a mean >= 55, medium for a mean >= 35 and low otherwise.
C1_SampleMeanTier ==
    samples # <<>> =>
        LET x == samples[Len(samples)]
            f == lastWindow.frames
            e == lastWindow.elapsed
            m == Len(RecentSamples)
            total == Sum(RecentSamples)
        IN  /\ e >= 1000
            /\ (2 * x - 1) * e <= 2 * f * 1000
            /\ 2 * f * 1000 < (2 * x + 1) * e
            /\ fps = x
            /\ Len(fpsHistory) = m
            /\ Sum(fpsHistory) = total
            /\ performanceLevel = IF total >= 55 * m THEN "high"
                                  ELSE IF total >= 35 * m THEN "medium"
                                  ELSE "low"
\* More than ten windows measured, the evicted sample differing from the
\* mean's, and the tier medium.
C1_Witness ==
    /\ Len(samples) > 10
    /\ samples[1] # samples[2]
    /\ lastWindow.frames * 1000 # fps * lastWindow.elapsed
    /\ performanceLevel = "medium"

\* C2: the history holds at most 10 samples, in arrival order, and they are
\* exactly the most recent window samples.
C2_HistoryIsRecentSamples ==
    /\ Len(fpsHistory) <= 10
    /\ fpsHistory = RecentSamples
\* An 11th sample was pushed and the oldest one, different from its successor,
\* is gone.
C2_Witness ==
    /\ Len(samples) = 11
    /\ samples[1] # samples[2]
    /\ Len(fpsHistory) = 10
    /\ fpsHistory[1] = samples[2]

\* C3: never two measureFPS callbacks scheduled; once the effect has run for
\* the value last set, exactly one is scheduled while monitoring and none
\* otherwise, also after a repeated startMonitoring or stopMonitoring.
C3_OneCallback ==
    /\ scheduled <= 1
    /\ isMonitoring = effectMonitoring => scheduled = (IF isMonitoring THEN 1 ELSE 0)
\* startMonitoring called twice in a row, effect run, one callback scheduled.
C3_Witness ==
    /\ lastCall = [op |-> "start", repeated |-> TRUE]
    /\ isMonitoring = effectMonitoring
    /\ scheduled = 1

\* C4: once the effect has run for a stopped sampler no measureFPS callback is
\* scheduled, and until startMonitoring is called the frame counter, the
\* history and the tier keep their values.
C4_StoppedIsQuiet ==
    [][(~isMonitoring /\ ~effectMonitoring) =>
          /\ scheduled = 0
          /\ ~isMonitoring' =>
                 UNCHANGED <<frameCount, fpsHistory, performanceLevel, scheduled>>]_vars
\* Stopped after having measured: the effect has cancelled the callback.
C4_Witness ==
    /\ lastCall.op = "stop"
    /\ ~isMonitoring /\ ~effectMonitoring
    /\ animationFrame = "dead"
    /\ scheduled = 0
    /\ samples # <<>>

\* C5: the tier the consumers (policy, visibility tracker, compositor) read is
\* the tier the measuring sampler derived from its latest window.
C5_ConsumersReadSamplerTier == consumerLevel = performanceLevel

\* C6: once the policy has processed its inputs, the quality factor is 1.0, 0.7
\* or 0.4 for tier high, medium or low, and shouldAnimate is false exactly when
\* the enabled flag is false or the tier is low and the viewport width it read
\* is <= 768.
C6_PolicyRule ==
    policyDeps = <<consumerLevel, enabled>> =>
        /\ animationQuality = (CASE consumerLevel = "high" -> 10
                                 [] consumerLevel = "medium" -> 7
                                 [] consumerLevel = "low" -> 4)
        /\ shouldAnimate = ~(~enabled \/ (consumerLevel = "low" /\ widthSeen <= 768))
\* Low tier processed at the boundary width: animation is off though enabled.
C6_Witness ==
    /\ policyDeps = <<"low", TRUE>>
    /\ consumerLevel = "low" /\ enabled
    /\ widthSeen = 768
    /\ ~shouldAnimate
    /\ animationQuality = 4

\* C7: whenever no run of the policy's effect is pending, shouldAnimate has the
\* value the rule gives for the current tier, enabled flag and viewport width
\* (so a resize across 768 px under low tier is followed by a recomputation).
C7_RecomputedOnEveryInput ==
    policyDeps = <<consumerLevel, enabled>> =>
        shouldAnimate = (enabled /\ ~(consumerLevel = "low" /\ innerWidth <= 768))


\* C8: from a touchend until the next touchstart (isActive false before and
\* after the step) the raw touch position changes only by one decay tick:
\* both components are multiplied by 0.92, or set to exactly (0,0) when both
\* products are below 0.01, and neither component grows in magnitude.
\* Refuted in TouchSpec: the frame callback of a touchmove handled before the
\* touchend runs after it and writes that touchmove's offset.
C8_ReleaseOnlyDecays ==
    [][(~isActive /\ ~isActive') =>
          \/ touchPosition' = touchPosition
          \/ /\ touchPosition' =
                  (IF Abs(Quot(touchPosition.x * 92, 100)) < 10
                      /\ Abs(Quot(touchPosition.y * 92, 100)) < 10
                   THEN [x |-> 0, y |-> 0]
                   ELSE [x |-> Quot(touchPosition.x * 92, 100),
                         y |-> Quot(touchPosition.y * 92, 100)])
             /\ Abs(touchPosition'.x) <= Abs(touchPosition.x)
             /\ Abs(touchPosition'.y) <= Abs(touchPosition.y)]_vars

\* C9: a touchstart makes the tracker Active, and while it is Active (from a
\* touchstart until the next touchend) no decay tick modifies the raw touch
\* position. Refuted in TouchSpec: handleTouchStart leaves the interval of
\* the previous touchend running.
C9_TouchStartDiscardsDecay ==
    [][/\ (\E p \in TouchPoints : TouchStart(p)) => isActive'
       /\ isActive => ~(DecayTick /\ touchPosition' # touchPosition)]_vars

\* C10: on a touch-capable or narrow (width < 768) device, whenever a touch
\* is active the fusion's output is the smoothed touch position times the
\* screen-size multiplier (0.7 below 400, 0.85 below 768, else 1), whatever
\* the orientation and mouse outputs are.
C10_ActiveTouchIsTheOutput ==
    ((hasTouch \/ innerWidth < 768) /\ isActive) =>
        LET multiplier == IF innerWidth < 400 THEN 70
                          ELSE IF innerWidth < 768 THEN 85 ELSE 100
        IN  InteractionPosition = [x |-> smoothedPosition.x * multiplier * 100,
                                   y |-> smoothedPosition.y * multiplier * 100]
\* A touch is active on a wide touch-capable device while orientation and
\* mouse both report positions other than the smoothed touch position.
C10_Witness ==
    /\ hasTouch /\ innerWidth >= 768 /\ isActive
    /\ smoothedPosition.x # 0 /\ smoothedPosition.y # 0
    /\ orientationSupported /\ orientation # Origin
    /\ mousePosition # Origin

\* C11: on a touch-capable or narrow device with no active touch the fusion's
\* output is (ox * 0.15 * m, oy * 0.10 * m) of the smoothed orientation once
\* orientation access is reported, m being the screen-size multiplier, and
\* exactly (0,0) before; the mouse position is not used.
C11_OrientationWhenNoTouch ==
    ((hasTouch \/ innerWidth < 768) /\ ~isActive) =>
        LET multiplier == IF innerWidth < 400 THEN 70
                          ELSE IF innerWidth < 768 THEN 85 ELSE 100
        IN  InteractionPosition =
                IF orientationSupported
                THEN [x |-> orientation.x * 15 * multiplier,
                      y |-> orientation.y * 10 * multiplier]
                ELSE [x |-> 0, y |-> 0]
\* No touch is active on a narrow device whose orientation hook reports a
\* tilt while the mouse hook reports a position of its own.
C11_Witness ==
    /\ innerWidth < 400 /\ ~isActive
    /\ orientationSupported /\ orientation # Origin
    /\ mousePosition # Origin
    /\ InteractionPosition # Origin

\* C12: on a non-touch device at least 768 wide, once the frame callback of a
\* mouse move at (cx, cy) has run the interaction vector is
\* ((cx - W/2)/W * quality, (cy - H/2)/H * quality), to the thousandth kept:
\* exactly (0,0) for a mouse at the centre of the window and (0.5 * quality, 0)
\* for one at (W, H/2).
C12_MouseVector ==
    [][(mouseFrame # <<>> /\ mouseFrame' = <<>> /\ ~hasTouch /\ innerWidth >= 768) =>
          LET cx == mouseFrame[1][1]
              cy == mouseFrame[1][2]
              W == innerWidth
              H == innerHeight
              q == animationQuality
              out == InteractionPosition'
              x == out.x \div 10000
              y == out.y \div 10000
          IN  /\ out = [x |-> x * 10000, y |-> y * 10000]
              /\ Abs(x * 2 * W - (2 * cx - W) * 100 * q) < 2 * W
              /\ Abs(y * 2 * H - (2 * cy - H) * 100 * q) < 2 * H
              /\ (2 * cx = W /\ 2 * cy = H) => out = [x |-> 0, y |-> 0]
              /\ (cx = W /\ 2 * cy = H) => out = [x |-> 50 * q * 10000, y |-> 0]]_vars
\* At quality 0.7 the callback of a move to the middle of the right edge of a
\* 1024-wide window has run: the vector is (0.35, 0).
C12_Witness ==
    /\ ~hasTouch /\ innerWidth = 1024 /\ animationQuality = 7
    /\ mouseFrame = <<>>
    /\ InteractionPosition = [x |-> 3500000, y |-> 0]

\* C13: both components of the vector the fusion returns lie in [-1, 1],
\* whichever source produced it, also for events whose coordinates are outside
\* the window measured when the frame callback runs. Refuted in MouseSpec: the
\* mouse position is not clamped.
C13_VectorInRange ==
    /\ Abs(InteractionPosition.x) <= 10000000
    /\ Abs(InteractionPosition.y) <= 10000000

\* C14: device-orientation permission is requested at most once per session;
\* no later touch, render or effect run makes another request. Refuted in
\* PermissionSpec: every render registers handleFirstTouch again, so the
\* touchstart after it requests once more.
C14_RequestedAtMostOnce == permissionRequests <= 1

\* C15: vibrate() calls navigator.vibrate only when the capability is there,
\* the device is mobile-class (touch support or a window narrower than 768)
\* and the preference of the instance called is enabled; each gate alone
\* suppresses the call.
C15_VibrateIsGated ==
    [][pulse'.calls > 0 =>
          /\ canVibrate
          /\ hasTouch \/ innerWidth < 768
          /\ IF pulse'.by = "toggle" THEN toggleEnabled ELSE hookEnabled]_vars
\* A touchstart has just made its calls on a device where all three gates are
\* open.
C15_Witness ==
    /\ pulse.by = "touch" /\ pulse.calls > 0
    /\ canVibrate /\ hookEnabled /\ hapticMobile

\* C16: once toggleHaptics has set the preference to disabled, no component
\* of the page calls navigator.vibrate until it is enabled again. Refuted in
\* HapticSpec: the trackers keep the isEnabled they read at mount.
C16_DisabledSilencesThePage ==
    [][(toggles > 0 /\ ~toggleEnabled /\ ~toggleEnabled' /\ storage = "false") =>
          pulse'.calls = 0]_vars

\* C17: two navigator.vibrate calls for a touchstart are more than 100 ms
\* apart and two for a touchmove more than 300 ms apart, so an event makes at
\* most one. Refuted in HapticSpec: every tracker of the page keeps its own
\* lastVibrateTime and calls on the same event.
C17_PulsesRespectCooldown ==
    [][/\ (pulse'.by = "touch" /\ pulse'.calls > 0) =>
              (pulse'.calls = 1 /\ sincePulse.touch > 100)
       /\ (pulse'.by = "move" /\ pulse'.calls > 0) =>
              (pulse'.calls = 1 /\ sincePulse.move > 300)]_vars

\* C18: every toggleHaptics call flips the preference and stores the new
\* value as "true" or "false", so that after n calls it is the value at mount
\* flipped n times; a page loaded afterwards starts with the stored value, and
\* with true when nothing is stored.
C18_TogglePersists ==
    /\ toggles = 0 => toggleEnabled = (storage = "<null>" \/ storage = "true")
    /\ toggles > 0 => storage = (IF toggleEnabled THEN "true" ELSE "false")
    /\ toggleEnabled = (IF toggles % 2 = 0 THEN mountEnabled ELSE ~mountEnabled)
\* Three calls after a mount that found "true" stored.
C18_Witness ==
    /\ toggles = 3 /\ mountEnabled /\ ~toggleEnabled /\ storage = "false"

\* C19: on a supported mobile device the toggleHaptics call that enables the
\* preference issues one 15 ms vibration, and the call that disables it
\* issues none. Refuted in ToggleSpec: the vibrate that toggleHaptics calls
\* reads the isEnabled of before the call, which is false.
C19_ConfirmationOnEnable ==
    [][toggles' = toggles + 1 =>
          IF toggleEnabled'
          THEN (canVibrate /\ (hasTouch \/ innerWidth < 768)) =>
                   (pulse'.calls = 1 /\ pulse'.pattern = <<15>>)
          ELSE pulse'.calls = 0]_vars

\* C20: when navigator.vibrate throws, vibrate() returns and the handler that
\* called it completes: a touchstart still makes the tracker Active, records
\* the raw position of its touch and restarts its cooldown; a touchend still
\* starts the decay.
C20_ThrowDoesNotBreakHandlers ==
    [][pulse'.threw =>
          /\ pulse'.by = "touch" =>
                 /\ isActive'
                 /\ sinceVibrate' = 0
                 /\ touchPosition' = [x |-> -500, y |-> -500]
          /\ pulse'.by = "release" => (~isActive' /\ decayTimers' = decayTimers + 1)
          /\ pulse'.by = "move" => ~touchTicking']_vars
\* A touchstart at the corner whose vibration threw has been handled.
C20_Witness ==
    /\ vibrateThrows /\ pulse.by = "touch" /\ pulse.threw
    /\ isActive /\ touchPosition = [x |-> -500, y |-> -500]


\* C21: in reveal mode, once the visibility tracker has reported revealed =
\* true it never reports false again, whatever intersection changes are
\* computed and delivered and however often a tier change re-creates the
\* observer.
C21_RevealedStaysRevealed == [][isVisible => isVisible']_vars
\* Revealed, and since then a re-created observer has computed and delivered
\* a not-intersecting entry.
C21_Witness == isVisible /\ reported = "out" /\ entries = <<>> /\ staleEntries = {}


\* C22: for the three size classes and any interaction vector and scroll
\* offset, each axis of the translation the compositor emits has absolute
\* value at most maxDisplacement(size) * qualityFactor (60, 45, 30 px for
\* small, medium, large).
C22_TranslationBounded ==
    ElementStyle.styled =>
        /\ Abs(ElementStyle.x) <= MaxMovement(element.size, animationQuality)
        /\ Abs(ElementStyle.y) <= MaxMovement(element.size, animationQuality)

\* C23: whenever shouldAnimate is false the compositor renders no transform
\* and no transition and the scroll-parallax source returns exactly 0,
\* whatever offset was stored before.
C23_DisabledMeansRest == ~shouldAnimate => ElementStyle = NoStyle /\ ScrollOffset = 0
\* Animation is off while a non-zero offset is stored.
C23_Witness == ~shouldAnimate /\ offset # 0 /\ InteractionVector # Origin


C29_FirstMoveOfTheFrame ==
    [][IF mouseFrame # <<>>
       THEN \/ mouseFrame' = mouseFrame /\ mousePosition' = mousePosition
            \/ /\ mouseFrame' = <<>>
               /\ mousePosition' =
                      [x |-> MouseOffset(mouseFrame[1][1], innerWidth, animationQuality),
                       y |-> MouseOffset(mouseFrame[1][2], innerHeight, animationQuality)]
       ELSE mousePosition' = mousePosition]_vars
\* The callbacks have run and the position is the centre's, although the
\* latest move received was at the right edge of the window: it was discarded.
C29_Witness ==
    /\ mouseFrame = <<>> /\ lastMove # <<>>
    /\ lastMove[1] = innerWidth
    /\ mousePosition = Origin


\* C28: once device-orientation access has been granted, a deviceorientation
\* listener is registered for as long as the hook is mounted and shouldAnimate
\* holds, across renders and runs of the effect, so that every later
\* orientation event reaches handleOrientation. Refuted in PermissionSpec.
C28_ListenerStaysRegistered ==
    orientationSupported /\ shouldAnimate => OrientationHandlers # {}


\* C24: for each of the scroll, mousemove, touchmove and device-orientation
\* sources at most one frame callback is pending at any time, so a rendering
\* frame, which runs the callbacks pending, processes at most one state
\* update of each source, however many events arrive between two frames and
\* however often the handlers are registered again.
C24_OneCallbackPerSource ==
    /\ Len(scrollFrame) <= 1
    /\ Len(mouseFrame) <= 1
    /\ Len(moveFrame) <= 1
    /\ Len(orientationFrame) <= 1
\* Every source has a callback pending; a second mousemove has arrived since,
\* and the tier has changed since the scroll handler requested its callback,
\* so the handlers were registered again meanwhile.
C24_Witness ==
    /\ Len(scrollFrame) = 1 /\ Len(mouseFrame) = 1
    /\ Len(moveFrame) = 1 /\ Len(orientationFrame) = 1
    /\ lastMove # mouseFrame[1]
    /\ scrollFrame[1] # animationQuality

\* C25: after shouldAnimate has turned false (or the owner is unmounted) none
\* of the timers, frame callbacks and listeners the owner registered remains
\* active. Stated for the owner whose shouldAnimate is false; refuted in
\* SourcesSpec.
C25_NothingSurvivesDisabling ==
    ~shouldAnimate =>
        /\ decayTimers = 0
        /\ scrollFrame = <<>> /\ mouseFrame = <<>>
        /\ moveFrame = <<>> /\ orientationFrame = <<>>
        /\ OrientationHandlers = {}
        /\ ~firstTouchArmed

\* C27: after a touchend that is followed by no further touch events the
\* tracker eventually reaches Idle and rests there: the raw position is
\* exactly (0,0) and every interval a touchend started has been cleared.
\* isActive is false from some point on exactly when the touch events that
\* follow, if any, are touchends: a touchstart sets it and handleTouchMove
\* returns while it is false. Refuted in LiveTouchSpec: the frame callback of
\* a touchmove handled before the touchend runs after the last interval has
\* cleared itself and leaves a raw position that nothing decays.
C27_ReleaseEndsIdle ==
    <>[](~isActive) => <>[](touchPosition = Origin /\ decayTimers = 0)

\* C30: every change of the raw touch position cancels and restarts the
\* smoothing timer, so a smoothing tick fires only when the raw position has
\* stayed unchanged for a full smoothing period (16 ms with a quality above
\* 0.7, else 32 ms), and it moves the smoothed position by a tenth of its
\* distance to the current raw position; with the period of 32 ms no tick
\* fires while an interval of a touchend is decaying the raw position (it was
\* set last by a decay tick that did not end the decay).
C30_TickOnlyAfterRest ==
    [][TimedSmoothTick =>
          /\ sinceRaw >= (IF animationQuality > 7 THEN 16 ELSE 32)
          /\ smoothedPosition' =
                 [x |-> smoothedPosition.x
                          + Quot((touchPosition.x - smoothedPosition.x) * 10, 100),
                  y |-> smoothedPosition.y
                          + Quot((touchPosition.y - smoothedPosition.y) * 10, 100)]
          /\ ~(/\ animationQuality <= 7
               /\ decayTimers > 0 /\ rawBy = "decay" /\ touchPosition # Origin)]_vars
\* With the period of 32 ms a decay is under way, 16 ms after its last tick,
\* and the smoothing interval, restarted by that tick, is 16 ms old; ticks
\* of the smoothing interval have moved the smoothed position before.
C30_Witness ==
    /\ shouldAnimate /\ animationQuality <= 7
    /\ decayTimers > 0 /\ rawBy = "decay" /\ touchPosition # Origin
    /\ sinceRaw >= 16 /\ smoothingAge = sinceRaw
    /\ smoothedPosition # Origin

\* C31: stopMonitoring followed by startMonitoring leaves the frame counter,
\* the window start time and the history unchanged (no call, and no run of
\* the effect that follows one, changes them), so with a start as the last
\* call the next sample recorded is round(frames * 1000 / elapsed) of the
\* frames counted and the time passed since the last window boundary, before
\* the stop or after, and it is pushed onto the history as it was before the
\* stop, the tier being derived from the mean of the result.
C31_RestartKeepsTheWindow ==
    [][/\ (lastCall' # lastCall \/ isMonitoring' # isMonitoring
                                \/ effectMonitoring' # effectMonitoring) =>
              /\ frameCount' = frameCount
              /\ sinceLast' = sinceLast
              /\ fpsHistory' = fpsHistory
       /\ (lastCall.op = "start" /\ Len(samples') > Len(samples)) =>
              LET f == frameCount + 1
                  x == fps'
                  kept == IF Len(fpsHistory) >= 10 THEN Tail(fpsHistory) ELSE fpsHistory
              IN  /\ sinceLast >= 1000
                  /\ (2 * x - 1) * sinceLast <= 2 * f * 1000
                  /\ 2 * f * 1000 < (2 * x + 1) * sinceLast
                  /\ fpsHistory' = Append(kept, x)
                  /\ performanceLevel' =
                         IF Sum(fpsHistory') >= 55 * Len(fpsHistory') THEN "high"
                         ELSE IF Sum(fpsHistory') >= 35 * Len(fpsHistory') THEN "medium"
                         ELSE "low"]_vars
\* Monitoring was stopped, the effect cancelled the callback, and
\* startMonitoring has just been called again: frames were counted and a
\* window's time passed before the stop, and the history holds samples.
C31_Witness ==
    /\ lastCall = [op |-> "start", repeated |-> FALSE]
    /\ isMonitoring /\ ~effectMonitoring /\ scheduled = 0
    /\ frameCount > 1 /\ sinceLast >= 1000
    /\ fpsHistory # <<>>

\* C32: on the page as composed by Home no mounted component calls
\* startMonitoring, so in every state every sampler has the tier high and an
\* empty history, every policy has the quality 1 and shouldAnimate true,
\* and the paths of the other tiers are not taken: no culling, transitions
\* of 700 ms, the reveal threshold 0.1, the smoothing period 16 ms.
C32_NothingMeasuresOnThePage ==
    /\ ~isMonitoring /\ scheduled = 0
    /\ performanceLevel = "high" /\ fpsHistory = <<>>
    /\ consumerLevel = "high" /\ revealLevel = "high"
    /\ animationQuality = 10 /\ shouldAnimate
    /\ ShouldRender /\ ElementStyle.transitionMs = 700
    /\ RevealThreshold(revealLevel) = 10
    /\ SmoothingRate = 16
\* The page in use: the policy's effect has run, more than a second has
\* passed since the samplers were created, the window is a phone's, a section
\* is revealed and a touch has ended.
C32_Witness ==
    /\ policyDeps = <<"high", TRUE>>
    /\ sinceLast >= 1000
    /\ innerWidth < 768 /\ widthSeen # innerWidth
    /\ isVisible
    /\ decayTimers > 0 /\ touchPosition # Origin

\* C33: once an AnimatedSection, TimelineItem or SignalCard has intersected
\* the viewport it is rendered in its shown state, which is the state it
\* has exactly when shouldAnimate and isVisible both hold: when the observer
\* has found the section intersecting and has delivered its entries, the
\* section is revealed, and a revealed section animates. Refuted in
\* HomeSpec: the callback reads the first entry of a delivery only.
C33_IntersectedMeansShown ==
    /\ (reported = "in" /\ entries = <<>>) => isVisible
    /\ isVisible => shouldAnimate

=============================================================================
